---- MODULE Spec2Model ----
(***************************************************************************)
(* A model of the Pisuke compiler's structural type checker                *)
(* (typecheck.CheckProgram) and of its textual import inliner              *)
(* (preprocessImports / resolveImportsRecursive in cmd/pisuke/main.go).    *)
(*                                                                         *)
(* The AST is modelled by records carrying the Go struct's fields; a Go    *)
(* map (MapLiteral.Pairs, typeDefs) whose iteration order the Go runtime   *)
(* leaves open is modelled by the set of outcomes every order can give.    *)
(***************************************************************************)
EXTENDS Integers, Sequences, FiniteSets, TLC

VARIABLES
    program,    \* the *ast.Program handed to CheckProgram
    errs,       \* the []string CheckProgram returned (one record per message)
    pc,         \* "ready" before a call, "done" after it
    files,      \* the .psk files on disk: cleaned path |-> content
    stack,      \* the active calls of resolveImportsRecursive, innermost last
    visited,    \* preprocessImports' visited map, as the set of its keys
    out,        \* what preprocessImports returned: the text, or the error
    code,       \* what codegen.Generate returned: the text, or the panic
    run,        \* one run of the command line: its arguments, what the parser
                \* reported, whether Generate was called, the exit status
    gen         \* a Generator at work on one expression, step by step: the
                \* buffers there are, the one g.out points to, the calls active

vars == <<program, errs, pc, files, stack, visited, out, code, run, gen>>

(***************************************************************************)
(* Bounds of the model.                                                    *)
(***************************************************************************)
MaxDepth == 2       \* deepest nesting of record types and map literals
MaxParams == 2      \* most parameters of the function the calls name
MaxArgs == 2        \* most arguments of a call
MaxImports == 2     \* most import directives in the entry file

(***************************************************************************)
(* The AST (package ast).                                                  *)
(***************************************************************************)
Identifier(v) == [kind |-> "Identifier", Value |-> v]
IntegerLiteralOf(v) == [kind |-> "IntegerLiteral", Value |-> v]
IntegerLiteral == IntegerLiteralOf(1)
StringLiteral(v) == [kind |-> "StringLiteral", Value |-> v]
\* Pairs is a Go map keyed by the key expression's identity: a set of pairs,
\* in which two pairs may carry keys of the same name.
MapLiteral(pairs) == [kind |-> "MapLiteral", Pairs |-> pairs]
Pair(k, v) == [key |-> k, val |-> v]
ListLiteral(elements) == [kind |-> "ListLiteral", Elements |-> elements]
IndexExpression(left, index) ==
    [kind |-> "IndexExpression", Left |-> left, Index |-> index]
MemberAccessExpression(object, property) ==
    [kind |-> "MemberAccessExpression", Object |-> object, Property |-> property]
InfixExpression(left, right) ==
    [kind |-> "InfixExpression", Left |-> left, Operator |-> "+", Right |-> right]
CallExpression(function, arguments) ==
    [kind |-> "CallExpression", Function |-> function, Arguments |-> arguments]
\* Name is <<>> for a nil Name (an anonymous function) and <<n>> otherwise;
\* ParamTypes maps the annotated parameters only.
FunctionLiteral(name, parameters, paramTypes, body) ==
    [kind |-> "FunctionLiteral", Name |-> name, Parameters |-> parameters,
     ParamTypes |-> paramTypes, ReturnType |-> "", Body |-> body]

LetStatement(name, typeName, value) ==
    [kind |-> "LetStatement", Name |-> name, TypeName |-> typeName, Value |-> value]
ConstStatement(name, typeName, value) ==
    [kind |-> "ConstStatement", Name |-> name, TypeName |-> typeName, Value |-> value]
ReturnStatement(value) == [kind |-> "ReturnStatement", ReturnValue |-> value]
ExpressionStatement(e) == [kind |-> "ExpressionStatement", Expression |-> e]
\* Nested is <<>> for a nil Nested and <<fields>> for a nested definition.
Field(name, type, nested) == [Name |-> name, Type |-> type, Nested |-> nested]
TypeDefinition(name, fields) ==
    [kind |-> "TypeDefinition", Name |-> name, Fields |-> fields]

(***************************************************************************)
(* The messages CheckProgram formats, one record per format string; a      *)
(* dotted path "u.name.n" is the sequence <<"u", "name", "n">>.            *)
(***************************************************************************)
MissingField(path, f) == [msg |-> "missing field", path |-> path, field |-> f]
ExpectedNested(path) == [msg |-> "expected nested object", path |-> path]
TypeMismatch(path, expected, got) ==
    [msg |-> "type mismatch", path |-> path, expected |-> expected, got |-> got]
UnknownType(t) == [msg |-> "unknown type", type |-> t]
UnknownField(ctx, prop, vt) ==
    [msg |-> "unknown field", ctx |-> ctx, field |-> prop, type |-> vt]
ArityMismatch(ctx, fn, expected, got) ==
    [msg |-> "expects args", ctx |-> ctx, fn |-> fn, expected |-> expected, got |-> got]
ArgShouldBe(ctx, i, fn, ptyp) ==
    [msg |-> "arg should be", ctx |-> ctx, arg |-> i, fn |-> fn, expected |-> ptyp]
ArgExpectedGot(ctx, i, fn, ptyp, vt) ==
    [msg |-> "arg expected got", ctx |-> ctx, arg |-> i, fn |-> fn,
     expected |-> ptyp, got |-> vt]

(***************************************************************************)
(* CheckProgram, pass 1: the registries.                                   *)
(***************************************************************************)
\* The last index of a statement of `prog` satisfying Test, 0 if none.
LastIndex(prog, Test(_)) ==
    LET hits == {i \in 1..Len(prog) : Test(prog[i])}
    IN  IF hits = {} THEN 0 ELSE CHOOSE i \in hits : \A j \in hits : j <= i

\* typeDefs[td.Name.Value] = td, a later definition replacing an earlier one.
TypeDefsSinglePass(prog) ==
    LET IsLet(s) == s.kind \in {"LetStatement", "ConstStatement"}
        lets == {i \in 1..Len(prog) : IsLet(prog[i])}
        upto == IF lets = {} THEN Len(prog)
                ELSE (CHOOSE i \in lets : \A j \in lets : i <= j) - 1
        names == {prog[i].Name : i \in {j \in 1..upto : prog[j].kind = "TypeDefinition"}}
    IN  [n \in names |->
            LET IsDef(s) == s.kind = "TypeDefinition" /\ s.Name = n
            IN  prog[LastIndex(SubSeq(prog, 1, upto), IsDef)]]

TypeDefs(prog) ==
    LET names == {prog[i].Name :
                    i \in {j \in 1..Len(prog) : prog[j].kind = "TypeDefinition"}}
    IN  [n \in names |->
            LET IsDef(s) == s.kind = "TypeDefinition" /\ s.Name = n
            IN  prog[LastIndex(prog, IsDef)]]

\* The named function literal a top-level statement binds, <<>> if none.
NamedFunctionOf(s) ==
    IF s.kind = "LetStatement" /\ s.Value.kind = "FunctionLiteral" /\ s.Value.Name # <<>>
    THEN <<s.Value>>
    ELSE IF s.kind = "ExpressionStatement" /\ s.Expression.kind = "FunctionLiteral"
            /\ s.Expression.Name # <<>>
    THEN <<s.Expression>>
    ELSE <<>>

\* funcSigs[fl.Name.Value] = {ParamOrder, Params}, the last binding winning.
FuncSigs(prog) ==
    LET fns(i) == NamedFunctionOf(prog[i])
        names == {fns(i)[1].Name[1] : i \in {j \in 1..Len(prog) : fns(j) # <<>>}}
    IN  [n \in names |->
            LET Binds(s) == NamedFunctionOf(s) # <<>> /\ NamedFunctionOf(s)[1].Name[1] = n
                fl == NamedFunctionOf(prog[LastIndex(prog, Binds)])[1]
            IN  [ParamOrder |-> fl.Parameters, Params |-> fl.ParamTypes]]

(***************************************************************************)
(* CheckProgram, pass 2: the variable types.                               *)
(***************************************************************************)
Put(m, k, v) == [x \in DOMAIN m \cup {k} |-> IF x = k THEN v ELSE m[x]]

\* The names a map literal's keys provide: string-literal and identifier keys.
KeyNames(ml) ==
    {p.key.Value : p \in {q \in ml.Pairs : q.key.kind \in {"StringLiteral", "Identifier"}}}

\* okMatch: every field the definition declares is found among the keys.
Matches(ml, td) == \A i \in 1..Len(td.Fields) : td.Fields[i].Name \in KeyNames(ml)

\* The types the range over typeDefs can settle on for an unannotated let.
InferredTypes(ml, typeDefs) == {tname \in DOMAIN typeDefs : Matches(ml, typeDefs[tname])}

\* One statement of the "collect variable types" loop: the varTypes maps it
\* can leave, from varTypes map vt.
CollectVarType(s, vt, typeDefs) ==
    IF s.kind = "LetStatement"
    THEN IF s.TypeName # ""
         THEN {Put(vt, s.Name, s.TypeName)}
         ELSE IF s.Value.kind = "MapLiteral"
              THEN IF InferredTypes(s.Value, typeDefs) = {} THEN {vt}
                   ELSE {Put(vt, s.Name, tname) : tname \in InferredTypes(s.Value, typeDefs)}
              ELSE {vt}
    ELSE IF s.kind = "ConstStatement" /\ s.TypeName # ""
    THEN {Put(vt, s.Name, s.TypeName)}
    ELSE {vt}

RECURSIVE VarTypesFrom(_, _, _, _)
VarTypesFrom(prog, i, vts, typeDefs) ==
    IF i > Len(prog) THEN vts
    ELSE VarTypesFrom(prog, i + 1,
                      UNION {CollectVarType(prog[i], vt, typeDefs) : vt \in vts}, typeDefs)

VarTypes(prog, typeDefs) == VarTypesFrom(prog, 1, {<<>>}, typeDefs)

(***************************************************************************)
(* CheckProgram, pass 3: checkMapAgainstType and the let/const validation. *)
(* Each operator gives the set of message lists the pass can append.       *)
(***************************************************************************)
Cat(A, B) == {a \o b : a \in A, b \in B}

\* A lookup that takes the value of any key for the value of the name.
ProvidedAnyKey(m, name) ==
    {p.val : p \in {q \in m.Pairs : q.key.kind \in {"StringLiteral", "Identifier"}}}

\* provided[f.Name]: the values the literal's pairs give the name. With two
\* keys of one name the map iteration's last write stays, which may be any.
Provided(m, name) ==
    {p.val : p \in {q \in m.Pairs :
                      /\ q.key.kind \in {"StringLiteral", "Identifier"}
                      /\ q.key.Value = name}}

\* The switch on a non-nested field's value.
LeafErrsSwapped(f, pv, path) ==
    IF pv.kind = "IntegerLiteral" /\ f.Type # "string"
    THEN <<TypeMismatch(path \o <<f.Name>>, f.Type, "int")>>
    ELSE IF pv.kind = "StringLiteral" /\ f.Type # "int"
    THEN <<TypeMismatch(path \o <<f.Name>>, f.Type, "string")>>
    ELSE <<>>

LeafErrs(f, pv, path) ==
    IF pv.kind = "IntegerLiteral" /\ f.Type # "int"
    THEN <<TypeMismatch(path \o <<f.Name>>, f.Type, "int")>>
    ELSE IF pv.kind = "StringLiteral" /\ f.Type # "string"
    THEN <<TypeMismatch(path \o <<f.Name>>, f.Type, "string")>>
    ELSE <<>>

\* The message for a declared field the literal does not provide.
MissingErrsSilent(path, f) == <<>>

MissingErrs(path, f) == <<MissingField(path, f.Name)>>

\* The message for a nested field whose value is no map literal.
NotNestedErrsParentPath(path, f) == <<ExpectedNested(path)>>

NotNestedErrs(path, f) == <<ExpectedNested(path \o <<f.Name>>)>>

RECURSIVE checkMapAgainstType(_, _, _, _)
checkMapAgainstType(m, fields, path, i) ==
    IF i > Len(fields) THEN {<<>>}
    ELSE LET f == fields[i]
             ValueErrs(pv) ==
                 IF f.Nested # <<>>
                 THEN IF pv.kind = "MapLiteral"
                      THEN checkMapAgainstType(pv, f.Nested[1], path \o <<f.Name>>, 1)
                      ELSE {NotNestedErrs(path, f)}
                 ELSE {LeafErrs(f, pv, path)}
             here == IF Provided(m, f.Name) = {}
                     THEN {MissingErrs(path, f)}
                     ELSE UNION {ValueErrs(pv) : pv \in Provided(m, f.Name)}
         IN  Cat(here, checkMapAgainstType(m, fields, path, i + 1))

\* One statement of the "validate let/const assignments" loop.
ValidateStatementUnknownUnchecked(s, typeDefs) ==
    IF s.kind \in {"LetStatement", "ConstStatement"} /\ s.TypeName # ""
       /\ s.TypeName \in DOMAIN typeDefs /\ s.Value.kind = "MapLiteral"
    THEN checkMapAgainstType(s.Value, typeDefs[s.TypeName].Fields, <<s.Name>>, 1)
    ELSE {<<>>}

ValidateStatement(s, typeDefs) ==
    IF s.kind \in {"LetStatement", "ConstStatement"} /\ s.TypeName # ""
    THEN IF s.TypeName \notin DOMAIN typeDefs
         THEN {<<UnknownType(s.TypeName)>>}
         ELSE IF s.Value.kind = "MapLiteral"
              THEN checkMapAgainstType(s.Value, typeDefs[s.TypeName].Fields, <<s.Name>>, 1)
              ELSE {<<>>}
    ELSE {<<>>}

RECURSIVE ValidateFrom(_, _, _)
ValidateFrom(prog, i, typeDefs) ==
    IF i > Len(prog) THEN {<<>>}
    ELSE Cat(ValidateStatement(prog[i], typeDefs), ValidateFrom(prog, i + 1, typeDefs))

Validate(prog, typeDefs) == ValidateFrom(prog, 1, typeDefs)

(***************************************************************************)
(* CheckProgram, pass 4: checkExpr and the traversal of the statements.    *)
(* env holds the registries: typeDefs, funcSigs and varTypes.              *)
(***************************************************************************)
RECURSIVE Flatten(_)
Flatten(ss) == IF ss = <<>> THEN <<>> ELSE Head(ss) \o Flatten(Tail(ss))

\* The member-access case: the property against the fields of the object
\* identifier's type, when that type is known and registered.
MemberErrs(e, ctx, env) ==
    IF /\ e.Object.kind = "Identifier"
       /\ e.Object.Value \in DOMAIN env.varTypes
       /\ env.varTypes[e.Object.Value] \in DOMAIN env.typeDefs
    THEN LET vt == env.varTypes[e.Object.Value]
             fields == env.typeDefs[vt].Fields
         IN  IF \E i \in 1..Len(fields) : fields[i].Name = e.Property
             THEN <<>>
             ELSE <<UnknownField(ctx, e.Property, vt)>>
    ELSE <<>>

\* sig.Params[paramName]: the zero value "" for a parameter without a type.
ParamType(sig, paramName) ==
    IF paramName \in DOMAIN sig.Params THEN sig.Params[paramName] ELSE ""

\* The switch on one argument of a call of the right arity; i counts from 1
\* here and the message carries Go's index i - 1.
ArgErrs(arg, i, fn, sig, ctx, env) ==
    LET ptyp == ParamType(sig, sig.ParamOrder[i])
    IN  IF arg.kind = "IntegerLiteral"
        THEN IF ptyp # "int" THEN <<ArgShouldBe(ctx, i - 1, fn, ptyp)>> ELSE <<>>
        ELSE IF arg.kind = "StringLiteral"
        THEN IF ptyp # "string" THEN <<ArgShouldBe(ctx, i - 1, fn, ptyp)>> ELSE <<>>
        ELSE IF arg.kind = "Identifier" /\ arg.Value \in DOMAIN env.varTypes
        THEN IF env.varTypes[arg.Value] # ptyp
             THEN <<ArgExpectedGot(ctx, i - 1, fn, ptyp, env.varTypes[arg.Value])>>
             ELSE <<>>
        ELSE <<>>

\* The call case: a call of an identifier with a known signature.
CallErrs(e, ctx, env) ==
    IF e.Function.kind = "Identifier" /\ e.Function.Value \in DOMAIN env.funcSigs
    THEN LET fn == e.Function.Value
             sig == env.funcSigs[fn]
         IN  IF Len(e.Arguments) # Len(sig.ParamOrder)
             THEN <<ArityMismatch(ctx, fn, Len(sig.ParamOrder), Len(e.Arguments))>>
             ELSE Flatten([i \in 1..Len(e.Arguments) |->
                              ArgErrs(e.Arguments[i], i, fn, sig, ctx, env)])
    ELSE <<>>

RECURSIVE checkExpr(_, _, _)
checkExpr(e, ctx, env) ==
    CASE e.kind = "MemberAccessExpression" ->
            MemberErrs(e, ctx, env) \o checkExpr(e.Object, ctx, env)
      [] e.kind = "CallExpression" ->
            CallErrs(e, ctx, env) \o checkExpr(e.Function, ctx, env)
            \o Flatten([i \in 1..Len(e.Arguments) |-> checkExpr(e.Arguments[i], ctx, env)])
      [] e.kind = "IndexExpression" -> checkExpr(e.Left, ctx, env)
      [] e.kind = "InfixExpression" ->
            checkExpr(e.Left, ctx, env) \o checkExpr(e.Right, ctx, env)
      [] e.kind = "FunctionLiteral" ->
            Flatten([i \in 1..Len(e.Body) |->
                        IF e.Body[i].kind = "ExpressionStatement"
                        THEN checkExpr(e.Body[i].Expression, ctx, env)
                        ELSE <<>>])
      [] OTHER -> <<>>

\* The final loop over program.Statements.
Traverse(prog, env) ==
    Flatten([i \in 1..Len(prog) |->
                CASE prog[i].kind = "ExpressionStatement" ->
                        checkExpr(prog[i].Expression, "<expr>", env)
                  [] prog[i].kind \in {"LetStatement", "ConstStatement"} ->
                        checkExpr(prog[i].Value, prog[i].Name, env)
                  [] OTHER -> <<>>])

\* Every list of messages CheckProgram can return for prog.
CheckProgramOutcomes(prog) ==
    LET typeDefs == TypeDefs(prog)
        funcSigs == FuncSigs(prog)
    IN  {v \o Traverse(prog, [typeDefs |-> typeDefs, funcSigs |-> funcSigs, varTypes |-> vt]) :
            v \in Validate(prog, typeDefs), vt \in VarTypes(prog, typeDefs)}

(***************************************************************************)
(* The call of CheckProgram on the program at hand.                        *)
(***************************************************************************)
CheckProgram ==
    /\ pc = "ready"
    /\ errs' \in CheckProgramOutcomes(program)
    /\ pc' = "done"
    /\ UNCHANGED <<program, files, stack, visited, out, code, run, gen>>

Next == CheckProgram

(***************************************************************************)
(* The programs CheckProgram is run on: a record type, and a let or const  *)
(* annotated with a type name and bound to a map literal.                  *)
(***************************************************************************)
\* Field lists nested to depth d: `id` alone, or `id` and a nested `sub`.
RECURSIVE RecordFields(_)
RecordFields(d) ==
    IF d = 0
    THEN {<<Field("id", "int", <<>>)>>, <<Field("id", "string", <<>>)>>}
    ELSE RecordFields(d - 1)
         \cup {<<Field("id", "int", <<>>), Field("sub", "", <<fs>>)>> :
                  fs \in RecordFields(d - 1)}

\* The pairs a literal gives `id` (a string-literal key): none, one value,
\* or the key written twice.
IdPairs ==
    {{}} \cup {{Pair(StringLiteral("id"), v)} :
                 v \in {IntegerLiteral, StringLiteral("x"), Identifier("y")}}
         \cup {{Pair(StringLiteral("id"), IntegerLiteral),
                Pair(StringLiteral("id"), StringLiteral("x"))}}

\* Map literals nested to depth d; `sub` is an identifier key.
RECURSIVE Literals(_)
Literals(d) ==
    IF d = 0
    THEN {MapLiteral(ip) : ip \in IdPairs}
    ELSE {MapLiteral(ip \cup sp) :
            ip \in IdPairs,
            sp \in {{}, {Pair(Identifier("sub"), IntegerLiteral)}}
                   \cup {{Pair(Identifier("sub"), l)} : l \in Literals(d - 1)}}

\* Literals that write `sub` twice, once as a record and once not, or as two
\* records: which value the checker sees is left to the map iteration.
TwiceSub ==
    {MapLiteral({Pair(StringLiteral("id"), IntegerLiteral), Pair(Identifier("sub"), l), Pair(Identifier("sub"), v)}) :
        l \in Literals(0),
        v \in {IntegerLiteral, MapLiteral({Pair(StringLiteral("id"), IntegerLiteral)})}}

\* statement kind, annotation, and whether the type definition comes first
Shapes ==
    {<<"LetStatement", "User", TRUE>>, <<"ConstStatement", "User", FALSE>>,
     <<"LetStatement", "Ghost", FALSE>>, <<"ConstStatement", "Ghost", TRUE>>}

\* Two bindings annotated with undeclared types, around the type definition.
TwoGhosts(fs, lit) ==
    <<LetStatement("u", "Ghost", lit), TypeDefinition("User", fs),
      ConstStatement("w", "Phantom", lit)>>

Binding(kind, typeName, value) ==
    IF kind = "LetStatement" THEN LetStatement("u", typeName, value)
    ELSE ConstStatement("u", typeName, value)

\* The import inliner is not part of a CheckProgram run.
\* Generate has not been called.
NotGenerated == code = [status |-> "none", text |-> <<>>]

\* The command line is not part of a CheckProgram, import or Generate run.
\* exit is the process's exit status, 0..255, once it has one.
NoExit == -1

NotRun == run = [args |-> <<>>, parserErrors |-> <<>>, generated |-> FALSE, exit |-> NoExit]

\* No generator is being followed step by step.
NoGenerator == gen = [out |-> 0, bufs |-> <<>>, frames |-> <<>>, ret |-> <<>>]

NoImports ==
    /\ files = <<>>
    /\ stack = <<>>
    /\ visited = {}
    /\ out = [status |-> "none", text |-> <<>>]

RecordPrograms ==
    {IF sh[3]
     THEN <<TypeDefinition("User", fs), Binding(sh[1], sh[2], lit)>>
     ELSE <<Binding(sh[1], sh[2], lit), TypeDefinition("User", fs)>> :
        fs \in RecordFields(MaxDepth), lit \in Literals(MaxDepth) \cup TwiceSub, sh \in Shapes}
    \cup {TwoGhosts(fs, lit) : fs \in RecordFields(0), lit \in Literals(1)}

InitRecords ==
    /\ program \in RecordPrograms
    /\ errs = <<>>
    /\ pc = "ready"
    /\ NoImports
    /\ NotGenerated
    /\ NotRun
    /\ NoGenerator

SpecRecords == InitRecords /\ [][Next]_vars

(***************************************************************************)
(* The programs with an expression to check: a typed variable `u`, a named *)
(* function `f`, and one call of `f` or member access, placed somewhere.   *)
(***************************************************************************)
RECURSIVE SeqsUpTo(_, _)
SeqsUpTo(S, n) ==
    IF n = 0 THEN {<<>>}
    ELSE SeqsUpTo(S, n - 1)
         \cup {Append(s, x) : s \in {q \in SeqsUpTo(S, n - 1) : Len(q) = n - 1}, x \in S}

ParamNames == <<"a", "b", "c", "d">>

\* f with one parameter per declared type in ptypes, "" leaving it untyped
FunctionF(ptypes) ==
    FunctionLiteral(<<"f">>, [i \in 1..Len(ptypes) |-> ParamNames[i]],
                    [n \in {ParamNames[i] : i \in {j \in 1..Len(ptypes) : ptypes[j] # ""}} |->
                        ptypes[CHOOSE i \in 1..Len(ptypes) : ParamNames[i] = n]],
                    <<>>)

Prelude ==
    <<TypeDefinition("User", <<Field("id", "int", <<>>)>>),
      LetStatement("u", "User", MapLiteral({Pair(StringLiteral("id"), IntegerLiteral)}))>>

Positions ==
    {"topExpr", "topLet", "topConst", "topReturn",
     "fnExpr", "fnLet", "fnConst", "fnReturn",
     "listElement", "mapValue", "callArgument", "indexLeft", "indexIndex",
     "infixRight", "memberObject"}

InFunction(body) == ExpressionStatement(FunctionLiteral(<<"g">>, <<>>, <<>>, body))

\* The statement that holds expression e at position pos.
Place(e, pos) ==
    CASE pos = "topExpr" -> ExpressionStatement(e)
      [] pos = "topLet" -> LetStatement("x", "", e)
      [] pos = "topConst" -> ConstStatement("x", "", e)
      [] pos = "topReturn" -> ReturnStatement(e)
      [] pos = "fnExpr" -> InFunction(<<ExpressionStatement(e)>>)
      [] pos = "fnLet" -> InFunction(<<LetStatement("x", "", e)>>)
      [] pos = "fnConst" -> InFunction(<<ConstStatement("x", "", e)>>)
      [] pos = "fnReturn" -> InFunction(<<ReturnStatement(e)>>)
      [] pos = "listElement" -> ExpressionStatement(ListLiteral(<<e>>))
      [] pos = "mapValue" ->
            LetStatement("m", "", MapLiteral({Pair(StringLiteral("k"), e)}))
      [] pos = "callArgument" ->
            ExpressionStatement(CallExpression(Identifier("print"), <<e>>))
      [] pos = "indexLeft" -> ExpressionStatement(IndexExpression(e, IntegerLiteral))
      [] pos = "indexIndex" -> ExpressionStatement(IndexExpression(Identifier("xs"), e))
      [] pos = "infixRight" -> ExpressionStatement(InfixExpression(IntegerLiteral, e))
      [] pos = "memberObject" -> ExpressionStatement(MemberAccessExpression(e, "id"))

ParamTypeNames == {"", "int", "User"}

ArgumentExprs == {IntegerLiteral, StringLiteral("s"), Identifier("u")}

CallPrograms ==
    {Prelude \o <<ExpressionStatement(FunctionF(pt)), Place(CallExpression(Identifier("f"), args), pos)>> :
        pt \in SeqsUpTo(ParamTypeNames, MaxParams), args \in SeqsUpTo(ArgumentExprs, MaxArgs),
        pos \in Positions}
    \cup
    {Prelude \o <<Place(CallExpression(Identifier("f"), args), "topExpr"),
                  LetStatement("f", "", FunctionF(pt))>> :
        pt \in SeqsUpTo(ParamTypeNames, MaxParams), args \in SeqsUpTo(ArgumentExprs, MaxArgs)}

\* `g` is annotated with a type nothing declares, `z` is not declared at all
MemberPrograms ==
    {Prelude \o <<LetStatement("g", "Ghost", IntegerLiteral),
                  Place(MemberAccessExpression(Identifier(v), prop), pos)>> :
        v \in {"u", "g", "z"}, prop \in {"id", "bogus"}, pos \in Positions}

\* An unannotated binding of a map literal, then a member access on it; one
\* or two registered types.
InferencePrograms ==
    {tds \o <<Binding(kind, "", lit) ,
              ExpressionStatement(MemberAccessExpression(Identifier("u"), prop))>> :
        tds \in {<<TypeDefinition("User", <<Field("id", "int", <<>>)>>)>>,
                 <<TypeDefinition("User", <<Field("id", "int", <<>>)>>),
                   TypeDefinition("Node", <<Field("sub", "", <<<<Field("id", "int", <<>>)>>>>)>>)>>},
        kind \in {"LetStatement", "ConstStatement"},
        lit \in Literals(1), prop \in {"id", "sub", "bogus"}}

InitExprs ==
    /\ program \in CallPrograms \cup MemberPrograms \cup InferencePrograms
    /\ errs = <<>>
    /\ pc = "ready"
    /\ NoImports
    /\ NotGenerated
    /\ NotRun
    /\ NoGenerator

SpecExprs == InitExprs /\ [][Next]_vars

(***************************************************************************)
(* Vocabulary of the claims about annotated bindings.                      *)
(***************************************************************************)
Bindings(prog) ==
    {i \in 1..Len(prog) : prog[i].kind \in {"LetStatement", "ConstStatement"}}

\* The bindings annotated with a registered type and bound to a map literal.
Validated(prog) ==
    {i \in Bindings(prog) : /\ prog[i].TypeName \in DOMAIN TypeDefs(prog)
                            /\ prog[i].Value.kind = "MapLiteral"}

FieldsOf(prog, i) == TypeDefs(prog)[prog[i].TypeName].Fields

FieldNames(fields) == {fields[i].Name : i \in 1..Len(fields)}

\* The literal's keys are the declared field names, at each level.
RECURSIVE ExactKeys(_, _)
ExactKeys(lit, fields) ==
    /\ KeyNames(lit) = FieldNames(fields)
    /\ \A i \in 1..Len(fields) :
          fields[i].Nested # <<>> =>
             \A v \in Provided(lit, fields[i].Name) :
                v.kind = "MapLiteral" /\ ExactKeys(v, fields[i].Nested[1])

\* No integer literal is given to a field not declared int, and no string
\* literal to a field not declared string, at any level.
RECURSIVE KindsAgree(_, _)
KindsAgree(lit, fields) ==
    \A i \in 1..Len(fields) : \A v \in Provided(lit, fields[i].Name) :
        IF fields[i].Nested # <<>>
        THEN v.kind = "MapLiteral" => KindsAgree(v, fields[i].Nested[1])
        ELSE /\ v.kind = "IntegerLiteral" => fields[i].Type = "int"
             /\ v.kind = "StringLiteral" => fields[i].Type = "string"

\* Every nested field that is given a value is given map literals, at each level.
RECURSIVE NestedAreMaps(_, _)
NestedAreMaps(lit, fields) ==
    \A i \in 1..Len(fields) :
        fields[i].Nested # <<>> =>
           \A v \in Provided(lit, fields[i].Name) :
              v.kind = "MapLiteral" /\ NestedAreMaps(v, fields[i].Nested[1])

\* The nested fields of `fields` that lit gives exactly one value, a map
\* literal: the nested literals the validation is sure to descend into.
Descended(lit, fields) ==
    {i \in 1..Len(fields) :
        /\ fields[i].Nested # <<>>
        /\ Cardinality(Provided(lit, fields[i].Name)) = 1
        /\ \A v \in Provided(lit, fields[i].Name) : v.kind = "MapLiteral"}

TheValue(lit, name) == CHOOSE v \in Provided(lit, name) : TRUE

\* <<path, name>> for each declared field the literal, or a nested literal
\* given to a nested field, does not have.
RECURSIVE MissingPositions(_, _, _)
MissingPositions(lit, fields, path) ==
    {<<path, fields[i].Name>> :
        i \in {j \in 1..Len(fields) : Provided(lit, fields[j].Name) = {}}}
    \cup UNION {MissingPositions(TheValue(lit, fields[i].Name), fields[i].Nested[1],
                                 path \o <<fields[i].Name>>) :
                  i \in Descended(lit, fields)}

\* The dotted path of each nested field that is given values none of which
\* is a map literal.
RECURSIVE NotNestedPositions(_, _, _)
NotNestedPositions(lit, fields, path) ==
    {path \o <<fields[i].Name>> :
        i \in {j \in 1..Len(fields) :
                 /\ fields[j].Nested # <<>>
                 /\ Provided(lit, fields[j].Name) # {}
                 /\ \A v \in Provided(lit, fields[j].Name) : v.kind # "MapLiteral"}}
    \cup UNION {NotNestedPositions(TheValue(lit, fields[i].Name), fields[i].Nested[1],
                                   path \o <<fields[i].Name>>) :
                  i \in Descended(lit, fields)}

Occurs(d, es) == \E k \in 1..Len(es) : es[k] = d

Count(d, es) == Cardinality({k \in 1..Len(es) : es[k] = d})

\* The depth to which a field list nests.
RECURSIVE Depth(_)
Depth(fields) ==
    IF \A i \in 1..Len(fields) : fields[i].Nested = <<>> THEN 0
    ELSE 1 + Depth(fields[CHOOSE i \in 1..Len(fields) : fields[i].Nested # <<>>].Nested[1])

\* The program is a type definition and one binding annotated with it.
OneValidated(prog) == Cardinality(Bindings(prog)) = 1 /\ Validated(prog) = Bindings(prog)

TheBinding(prog) == CHOOSE i \in Bindings(prog) : TRUE

(***************************************************************************)
(* C1 (as claimed).  A literal whose keys are, at each level, exactly the  *)
(* declared field names yields zero diagnostics.                           *)
(***************************************************************************)
C1_AsClaimed ==
    (pc = "done" /\ OneValidated(program)
       /\ ExactKeys(program[TheBinding(program)].Value, FieldsOf(program, TheBinding(program))))
    => errs = <<>>

(***************************************************************************)
(* C1 (amended).  A literal whose keys are, at each level, exactly the     *)
(* declared field names, and which gives no integer literal to a field not *)
(* declared int and no string literal to a field not declared string,      *)
(* yields zero diagnostics.                                                *)
(***************************************************************************)
C1_ExactKeysAgreeingKinds ==
    (pc = "done" /\ OneValidated(program)
       /\ ExactKeys(program[TheBinding(program)].Value, FieldsOf(program, TheBinding(program)))
       /\ KindsAgree(program[TheBinding(program)].Value, FieldsOf(program, TheBinding(program))))
    => errs = <<>>

C1_Witness ==
    /\ pc = "done" /\ OneValidated(program)
    /\ Depth(FieldsOf(program, TheBinding(program))) = 2
    /\ ExactKeys(program[TheBinding(program)].Value, FieldsOf(program, TheBinding(program)))
    /\ KindsAgree(program[TheBinding(program)].Value, FieldsOf(program, TheBinding(program)))
    /\ errs = <<>>

Unregistered(prog) ==
    {i \in Bindings(prog) : /\ prog[i].TypeName # ""
                            /\ prog[i].TypeName \notin DOMAIN TypeDefs(prog)}

Structural == {"missing field", "expected nested object", "type mismatch"}

RECURSIVE Select(_, _)
Select(prog, isType) ==
    IF prog = <<>> THEN <<>>
    ELSE (IF (Head(prog).kind = "TypeDefinition") = isType THEN <<Head(prog)>> ELSE <<>>)
         \o Select(Tail(prog), isType)

TypesFirst(prog) == Select(prog, TRUE) \o Select(prog, FALSE)

TypesLast(prog) == Select(prog, FALSE) \o Select(prog, TRUE)

C10_TypeOrderIrrelevant ==
    pc = "done" =>
        /\ errs \in CheckProgramOutcomes(TypesFirst(program))
        /\ errs \in CheckProgramOutcomes(TypesLast(program))

\* a forward reference: the definition follows the binding it validates
C10_Witness ==
    /\ pc = "done" /\ OneValidated(program)
    /\ program # TypesFirst(program)
    /\ \E k \in 1..Len(errs) : errs[k].msg = "missing field"

(***************************************************************************)
(* C11.  The messages for a let or const annotated with a registered type  *)
(* and bound to a map literal are those CheckProgram gives for the literal *)
(* without the keys that the type definition does not declare, at every    *)
(* nesting level: adding such keys changes nothing.                        *)
(***************************************************************************)
\* lit without the pairs whose key names no declared field, at each level.
RECURSIVE WithoutUndeclared(_, _)
WithoutUndeclared(lit, fields) ==
    LET FieldNamed(n) == fields[CHOOSE i \in 1..Len(fields) : fields[i].Name = n]
        Kept == {p \in lit.Pairs : /\ p.key.kind \in {"StringLiteral", "Identifier"}
                                   /\ p.key.Value \in FieldNames(fields)}
    IN  MapLiteral({Pair(p.key,
                         IF FieldNamed(p.key.Value).Nested # <<>> /\ p.val.kind = "MapLiteral"
                         THEN WithoutUndeclared(p.val, FieldNamed(p.key.Value).Nested[1])
                         ELSE p.val) : p \in Kept})

\* prog with the literal of its bindings stripped of the undeclared keys
Narrowed(prog) ==
    [i \in 1..Len(prog) |->
        IF i \in Validated(prog)
        THEN [prog[i] EXCEPT !.Value = WithoutUndeclared(prog[i].Value, FieldsOf(prog, i))]
        ELSE prog[i]]

C11_ExtraKeysIgnored ==
    (pc = "done" /\ OneValidated(program)) =>
        /\ errs \in CheckProgramOutcomes(Narrowed(program))
        /\ CheckProgramOutcomes(Narrowed(program)) = CheckProgramOutcomes(program)

\* an undeclared key inside a nested literal, in a literal that draws messages
C11_Witness ==
    /\ pc = "done" /\ OneValidated(program)
    /\ errs # <<>>
    /\ LET i == TheBinding(program)
           lit == program[i].Value
           fields == FieldsOf(program, i)
       IN  /\ KeyNames(lit) \subseteq FieldNames(fields)
           /\ WithoutUndeclared(lit, fields) # lit

(***************************************************************************)
(* Vocabulary of the claims about expressions: every expression that       *)
(* occurs in a program, wherever it occurs.                                *)
(***************************************************************************)
\* The expression a statement holds, as a set.
HeldBy(s) ==
    CASE s.kind \in {"LetStatement", "ConstStatement"} -> {s.Value}
      [] s.kind = "ReturnStatement" -> {s.ReturnValue}
      [] s.kind = "ExpressionStatement" -> {s.Expression}
      [] OTHER -> {}

RECURSIVE SubExprs(_)
SubExprs(e) ==
    {e} \cup
    CASE e.kind = "ListLiteral" -> UNION {SubExprs(e.Elements[i]) : i \in 1..Len(e.Elements)}
      [] e.kind = "MapLiteral" -> UNION {SubExprs(p.key) \cup SubExprs(p.val) : p \in e.Pairs}
      [] e.kind = "IndexExpression" -> SubExprs(e.Left) \cup SubExprs(e.Index)
      [] e.kind = "MemberAccessExpression" -> SubExprs(e.Object)
      [] e.kind = "InfixExpression" -> SubExprs(e.Left) \cup SubExprs(e.Right)
      [] e.kind = "CallExpression" ->
            SubExprs(e.Function)
            \cup UNION {SubExprs(e.Arguments[i]) : i \in 1..Len(e.Arguments)}
      [] e.kind = "FunctionLiteral" ->
            UNION {UNION {SubExprs(x) : x \in HeldBy(e.Body[i])} : i \in 1..Len(e.Body)}
      [] OTHER -> {}

ProgramExprs(prog) ==
    UNION {UNION {SubExprs(x) : x \in HeldBy(prog[i])} : i \in 1..Len(prog)}

\* The calls of an identifier that names a top-level named function.
KnownCalls(prog) ==
    {e \in ProgramExprs(prog) :
        /\ e.kind = "CallExpression"
        /\ e.Function.kind = "Identifier"
        /\ e.Function.Value \in DOMAIN FuncSigs(prog)}

Expected(prog, e) == Len(FuncSigs(prog)[e.Function.Value].ParamOrder)

ArityErrsFor(e, expected, es) ==
    {k \in 1..Len(es) : /\ es[k].msg = "expects args"
                        /\ es[k].fn = e.Function.Value
                        /\ es[k].expected = expected
                        /\ es[k].got = Len(e.Arguments)}

ArgErrsFor(e, es) ==
    {k \in 1..Len(es) : /\ es[k].msg \in {"arg should be", "arg expected got"}
                        /\ es[k].fn = e.Function.Value}

\* The member accesses on an identifier of known, registered type whose
\* property the type does not declare: <<property, type>>.
UndeclaredAccesses(prog, varTypes) ==
    {<<e.Property, varTypes[e.Object.Value]>> :
        e \in {x \in ProgramExprs(prog) :
                 /\ x.kind = "MemberAccessExpression"
                 /\ x.Object.kind = "Identifier"
                 /\ x.Object.Value \in DOMAIN varTypes
                 /\ varTypes[x.Object.Value] \in DOMAIN TypeDefs(prog)
                 /\ x.Property \notin FieldNames(TypeDefs(prog)[varTypes[x.Object.Value]].Fields)}}

(***************************************************************************)
(* C3 (as claimed).  A call of a known function of N parameters with       *)
(* M # N arguments yields exactly one arity message citing N and M, and no *)
(* argument-type message.                                                  *)
(***************************************************************************)
C3_AsClaimed ==
    pc = "done" =>
        \A e \in KnownCalls(program) :
            Len(e.Arguments) # Expected(program, e) =>
                /\ Cardinality(ArityErrsFor(e, Expected(program, e), errs)) = 1
                /\ ArgErrsFor(e, errs) = {}

(***************************************************************************)
(* C6 (as claimed).  The member-access and call checks are applied to      *)
(* every expression of the program, wherever it occurs: an access to an    *)
(* undeclared field and a call of the wrong arity are reported.            *)
(***************************************************************************)
C6_AsClaimed ==
    pc = "done" =>
        /\ \A a \in UndeclaredAccesses(program, CHOOSE vt \in VarTypes(program, TypeDefs(program)) : TRUE) :
              \E k \in 1..Len(errs) :
                  errs[k].msg = "unknown field" /\ errs[k].field = a[1] /\ errs[k].type = a[2]
        /\ \A e \in KnownCalls(program) :
              Len(e.Arguments) # Expected(program, e) =>
                  ArityErrsFor(e, Expected(program, e), errs) # {}

(***************************************************************************)
(* C7 (as claimed).  In a call of a known function with the right number   *)
(* of arguments, an integer literal, string literal or typed variable      *)
(* passed to a parameter without a declared type yields no message.        *)
(***************************************************************************)
C7_AsClaimed ==
    pc = "done" =>
        \A e \in KnownCalls(program) :
            Len(e.Arguments) = Expected(program, e) =>
                \A i \in 1..Len(e.Arguments) :
                    LET sig == FuncSigs(program)[e.Function.Value]
                    IN  sig.ParamOrder[i] \notin DOMAIN sig.Params =>
                            \A k \in ArgErrsFor(e, errs) : errs[k].arg # i - 1

(***************************************************************************)
(* C8 (as claimed).  An unannotated let or const bound to a map literal    *)
(* whose keys cover the fields of some registered type is given one such   *)
(* type: a later member access on the variable is reported as an unknown   *)
(* field exactly when the chosen type does not declare the property.       *)
(***************************************************************************)
C8_AsClaimed ==
    pc = "done" =>
        \A i \in Bindings(program) : \A j \in 1..Len(program) :
            (/\ program[i].TypeName = ""
             /\ program[i].Value.kind = "MapLiteral"
             /\ InferredTypes(program[i].Value, TypeDefs(program)) # {}
             /\ i < j
             /\ program[j].kind = "ExpressionStatement"
             /\ program[j].Expression.kind = "MemberAccessExpression"
             /\ program[j].Expression.Object = Identifier(program[i].Name))
            => \E t \in InferredTypes(program[i].Value, TypeDefs(program)) :
                  LET prop == program[j].Expression.Property
                  IN  IF prop \in FieldNames(TypeDefs(program)[t].Fields)
                      THEN errs = <<>>
                      ELSE errs = <<UnknownField("<expr>", prop, t)>>

(***************************************************************************)
(* C12 (as claimed).  A member access on an identifier yields exactly one  *)
(* "unknown field" message when the identifier's type is known and         *)
(* registered and does not declare the property, and none when the type    *)
(* declares it, is not known, or is not registered.                        *)
(***************************************************************************)
MemberAccesses(prog) ==
    {x \in ProgramExprs(prog) :
        x.kind = "MemberAccessExpression" /\ x.Object.kind = "Identifier"}

UnknownFieldErrsFor(e, es) ==
    {k \in 1..Len(es) : es[k].msg = "unknown field" /\ es[k].field = e.Property}

\* the access is on a variable of a registered type that lacks the property
Undeclared(prog, varTypes, e) ==
    /\ e.Object.Value \in DOMAIN varTypes
    /\ varTypes[e.Object.Value] \in DOMAIN TypeDefs(prog)
    /\ e.Property \notin FieldNames(TypeDefs(prog)[varTypes[e.Object.Value]].Fields)

C12_AsClaimed ==
    pc = "done" =>
        \E vt \in VarTypes(program, TypeDefs(program)) :
            \A e \in MemberAccesses(program) :
                IF Undeclared(program, vt, e)
                THEN /\ Cardinality(UnknownFieldErrsFor(e, errs)) = 1
                     /\ \A k \in UnknownFieldErrsFor(e, errs) :
                           errs[k].type = vt[e.Object.Value]
                ELSE UnknownFieldErrsFor(e, errs) = {}

(***************************************************************************)
(* The import inliner (cmd/pisuke/main.go).  A file's text is a sequence   *)
(* of items: an import directive, matched by the regular expression as a   *)
(* whole (its text m[0] is its names list and its module path), or a piece *)
(* of other text, which holds no directive.  A path is its sequence of     *)
(* segments; the process runs in the directory <<>>.                       *)
(***************************************************************************)
Text(f) == [kind |-> "text", file |-> f]
Import(names, path) == [kind |-> "import", names |-> names, path |-> path]
BeginMarker(path) == [kind |-> "begin inlined module", path |-> path]
EndMarker(path) == [kind |-> "end inlined module", path |-> path]

\* filepath.Join's cleaning, for the "." segments these paths have.
RECURSIVE Clean(_)
Clean(path) ==
    IF path = <<>> THEN <<>>
    ELSE (IF Head(path) = "." THEN <<>> ELSE <<Head(path)>>) \o Clean(Tail(path))

\* filepath.Dir of a cleaned path.
Dir(path) == SubSeq(path, 1, Len(path) - 1)

\* The file a module path names from baseDir: the file beside the importing
\* file when there is one, else the path taken from the working directory.
Candidate(baseDir, modulePath) ==
    IF Clean(baseDir \o modulePath) \in DOMAIN files
    THEN Clean(baseDir \o modulePath)
    ELSE Clean(modulePath)

\* re.FindAllStringSubmatch: the directives of content, in order.
IsImport(item) == item.kind = "import"

FindAllImports(content) == SelectSeq(content, IsImport)

\* strings.Replace(result, m0, by, -1): every occurrence is replaced.
RECURSIVE Replace(_, _, _)
Replace(result, m0, by) ==
    IF result = <<>> THEN <<>>
    ELSE (IF Head(result) = m0 THEN by ELSE <<Head(result)>>)
         \o Replace(Tail(result), m0, by)

\* One call of resolveImportsRecursive: its arguments, its loop index k, its
\* result so far, and the directive of the caller it is inlined for.
Frame(baseDir, content, directive) ==
    [baseDir |-> baseDir, matches |-> FindAllImports(content), k |-> 1,
     result |-> content, directive |-> directive]

Entry == <<"main">>

NoDirective == [kind |-> "none"]

Top == stack[Len(stack)]

\* abs, for the directive the innermost loop is at
Abs == Candidate(Top.baseDir, Top.matches[Top.k].path)

InLoop == pc = "running" /\ stack # <<>> /\ Top.k <= Len(Top.matches)

\* preprocessImports: a fresh visited map, and the call for the entry file.
preprocessImports ==
    /\ pc = "ready"
    /\ stack = <<>>
    /\ visited' = {}
    /\ stack' = <<Frame(Dir(Entry), files[Entry], NoDirective)>>
    /\ pc' = "running"
    /\ UNCHANGED <<program, errs, files, out, code, run, gen>>

\* for range matches with a continue that never leaves the directive
SkipVisitedAgain ==
    /\ InLoop
    /\ Abs \in visited
    /\ stack' = [stack EXCEPT ![Len(stack)] =
                    [@ EXCEPT !.result = Replace(@, Top.matches[Top.k], <<>>)]]
    /\ UNCHANGED <<program, errs, pc, files, visited, out, code, run, gen>>

\* visited[abs]: the directive is removed.
SkipVisited ==
    /\ InLoop
    /\ Abs \in visited
    /\ stack' = [stack EXCEPT ![Len(stack)] =
                    [@ EXCEPT !.result = Replace(@, Top.matches[Top.k], <<>>),
                              !.k = @ + 1]]
    /\ UNCHANGED <<program, errs, pc, files, visited, out, code, run, gen>>

\* ioutil.ReadFile fails: every active call returns the error.
ReadFails ==
    /\ InLoop
    /\ Abs \notin visited
    /\ Abs \notin DOMAIN files
    /\ out' = [status |-> "error", text |-> <<>>]
    /\ stack' = <<>>
    /\ pc' = "done"
    /\ UNCHANGED <<program, errs, files, visited, code, run, gen>>

\* The module is read, marked visited, and resolved by a recursive call.
Recurse ==
    /\ InLoop
    /\ Abs \notin visited
    /\ Abs \in DOMAIN files
    /\ visited' = visited \cup {Abs}
    /\ stack' = Append(stack, Frame(Dir(Abs), files[Abs], Top.matches[Top.k]))
    /\ UNCHANGED <<program, errs, pc, files, out, code, run, gen>>

\* The loop is over: the result goes to preprocessImports' caller, or is
\* spliced, between its markers, over the caller's directive.
ReturnResult ==
    /\ pc = "running" /\ stack # <<>>
    /\ Top.k > Len(Top.matches)
    /\ IF Len(stack) = 1
       THEN /\ out' = [status |-> "ok", text |-> Top.result]
            /\ stack' = <<>>
            /\ pc' = "done"
       ELSE /\ stack' = [SubSeq(stack, 1, Len(stack) - 1) EXCEPT ![Len(stack) - 1] =
                            [@ EXCEPT !.result =
                                          Replace(@, Top.directive,
                                                  <<BeginMarker(Top.directive.path)>>
                                                  \o Top.result
                                                  \o <<EndMarker(Top.directive.path)>>),
                                      !.k = @ + 1]]
            /\ UNCHANGED <<pc, out, code, run, gen>>
    /\ UNCHANGED <<program, errs, files, visited, code, run, gen>>

resolveImportsRecursive == SkipVisited \/ ReadFails \/ Recurse \/ ReturnResult

NextImports == preprocessImports \/ resolveImportsRecursive

(***************************************************************************)
(* The files the inliner is run on: main.psk, a.psk and b.psk in the       *)
(* working directory and lib/c.psk, each with its import directives ahead  *)
(* of its own text.                                                        *)
(***************************************************************************)
FileA == <<"a">>
FileB == <<"b">>
FileC == <<"lib", "c">>

EntryImports ==
    SeqsUpTo({Import("x", FileA), Import("x", FileB), Import("x", FileC),
              Import("x", <<".", "lib", "c">>), Import("x", <<"nope">>)}, MaxImports)

ImportsOfA ==
    {<<>>, <<Import("x", FileC)>>, <<Import("y", FileC)>>, <<Import("x", FileB)>>,
     <<Import("x", Entry)>>, <<Import("x", FileC), Import("x", FileC)>>}

ImportsOfB == {<<>>, <<Import("x", FileC)>>, <<Import("x", FileA)>>}

\* from lib/, "a" is a.psk of the working directory and "c" is lib/c.psk
ImportsOfC == {<<>>, <<Import("x", FileA)>>, <<Import("x", <<"c">>)>>, <<Import("x", Entry)>>}

FileSystems ==
    {(Entry :> (m \o <<Text(Entry)>>)) @@ (FileA :> (a \o <<Text(FileA)>>))
        @@ (FileB :> (b \o <<Text(FileB)>>)) @@ (FileC :> (c \o <<Text(FileC)>>)) :
        m \in EntryImports, a \in ImportsOfA, b \in ImportsOfB, c \in ImportsOfC}

InitImports ==
    /\ files \in FileSystems
    /\ stack = <<>>
    /\ visited = {}
    /\ out = [status |-> "none", text |-> <<>>]
    /\ pc = "ready"
    /\ program = <<>>
    /\ errs = <<>>
    /\ NotGenerated
    /\ NotRun
    /\ NoGenerator

SpecImports == InitImports /\ [][NextImports]_vars

(***************************************************************************)
(* The inliner as main runs it: one goroutine, no waiting, so a call that  *)
(* can take its next step takes it.                                        *)
(***************************************************************************)
SpecImportsRun == InitImports /\ [][NextImports]_vars /\ WF_vars(NextImports)


(***************************************************************************)
(* C5 (as claimed).  The text preprocessImports returns holds the content  *)
(* of each imported module file at most once.                              *)
(***************************************************************************)
Copies(f, text) == Cardinality({k \in 1..Len(text) : text[k] = Text(f)})

C5_AsClaimed ==
    (pc = "done" /\ out.status = "ok") =>
        \A f \in DOMAIN files \ {Entry} : Copies(f, out.text) <= 1

(***************************************************************************)
(* The code generator (package codegen).  Text is a sequence of lexemes:   *)
(* a word (a run of letters, digits and underscores) or one character that *)
(* is not of a word, so that two texts that spell the same string are the  *)
(* same sequence and the generator's searches for a character              *)
(* (strings.Contains, Trim, Split, HasPrefix) are searches for a lexeme.   *)
(* Each operator gives the set of generator states a call can leave, one   *)
(* for each order in which a Go map can be iterated; a state with panicked *)
(* set is a run-time panic unwinding the calls.                            *)
(***************************************************************************)
NewGenerator ==
    [out |-> <<>>, indentlevel |-> 0,
     requiresHttp |-> FALSE, requiresLog |-> FALSE, requiresFmt |-> FALSE,
     requiresMiddleware |-> FALSE,
     variableTypes |-> <<>>, typeDefs |-> <<>>,
     requiresJson |-> FALSE, requiresIo |-> FALSE, requiresStrings |-> FALSE,
     panicked |-> FALSE, ret |-> <<>>]

\* The lexemes of the strings of the programs at hand that are not one word.
Chars(s) ==
    CASE s = "" -> <<>>
      [] s = "/" -> <<"/">>
      [] s = "/users" -> <<"/", "users">>
      [] s = "/users/:id" -> <<"/", "users", "/", ":", "id">>
      [] s = "/users/:id/posts/:pid" -> <<"/", "users", "/", ":", "id", "/", "posts", "/", ":", "pid">>
      [] s = "/:id" -> <<"/", ":", "id">>
      [] s = ":id" -> <<":", "id">>
      [] s = "users/:id/" -> <<"users", "/", ":", "id", "/">>
      [] s = "/api//v1/:id/x" -> <<"/", "api", "/", "/", "v1", "/", ":", "id", "/", "x">>
      [] s = "a[0]" -> <<"a", "[", "0", "]">>
      [] s = "Hello, " -> <<"Hello", ",", " ">>
      [] OTHER -> <<s>>

\* The string a text spells.
RECURSIVE Flat(_)
Flat(text) == IF text = <<>> THEN "" ELSE Head(text) \o Flat(Tail(text))

\* Go's order of the strings the programs use as keys.
KeyOrder == <<"1", "age", "id", "inner", "n", "name", "sub">>

Less(a, b) ==
    LET Rank(s) == CHOOSE i \in 1..Len(KeyOrder) : KeyOrder[i] = s
    IN  Rank(a) < Rank(b)

capitalizeFirst(s) ==
    CASE s = "" -> s
      [] s = "age" -> "Age"
      [] s = "id" -> "Id"
      [] s = "inner" -> "Inner"
      [] s = "n" -> "N"
      [] s = "name" -> "Name"
      [] s = "sub" -> "Sub"
      [] s = "query" -> "Query"
      [] s = "bogus" -> "Bogus"
      [] OTHER -> s

Tabs(n) == [i \in 1..n |-> "\t"]

write(g, s) == [g EXCEPT !.out = @ \o s]

indent(g) == write(g, Tabs(g.indentlevel))

writeLine(g, s) == write(indent(g), s \o <<"\n">>)

\* strings.Join
RECURSIVE Join(_, _)
Join(texts, sep) ==
    IF texts = <<>> THEN <<>>
    ELSE IF Len(texts) = 1 THEN texts[1]
    ELSE texts[1] \o sep \o Join(Tail(texts), sep)

Contains(text, lexeme) == \E i \in 1..Len(text) : text[i] = lexeme

\* strings.Trim(text, cut) for a one-character cutset.
RECURSIVE TrimLeft(_, _)
TrimLeft(text, cut) ==
    IF text # <<>> /\ Head(text) = cut THEN TrimLeft(Tail(text), cut) ELSE text

RECURSIVE TrimRight(_, _)
TrimRight(text, cut) ==
    IF text # <<>> /\ text[Len(text)] = cut
    THEN TrimRight(SubSeq(text, 1, Len(text) - 1), cut)
    ELSE text

Trim(text, cut) == TrimRight(TrimLeft(text, cut), cut)

\* strings.Split(text, sep): the parts between the separators, at least one.
RECURSIVE Split(_, _)
Split(text, sep) ==
    IF ~Contains(text, sep) THEN <<text>>
    ELSE LET i == CHOOSE k \in 1..Len(text) :
                      text[k] = sep /\ \A j \in 1..(k - 1) : text[j] # sep
         IN  <<SubSeq(text, 1, i - 1)>> \o Split(SubSeq(text, i + 1, Len(text)), sep)

HasPrefix(text, lexeme) == text # <<>> /\ Head(text) = lexeme

\* The orders in which `range` can visit the entries of a Go map.
Orders(S) ==
    {f \in [1..Cardinality(S) -> S] : \A i, j \in 1..Cardinality(S) : f[i] = f[j] => i = j}

\* What sort.Slice by key, which is not stable, can make of pairs.
SortedByKey(pairs) ==
    {[i \in 1..Len(pairs) |-> pairs[f[i]]] :
        f \in {h \in Orders(1..Len(pairs)) :
                 \A i, j \in 1..Len(pairs) : i < j => ~Less(pairs[h[j]].key, pairs[h[i]].key)}}

\* The map a loop of assignments m[key] = val over pairs leaves.
Assigned(pairs) ==
    [k \in {pairs[i].key : i \in 1..Len(pairs)} |->
        pairs[CHOOSE i \in 1..Len(pairs) :
                 pairs[i].key = k /\ \A j \in (i + 1)..Len(pairs) : pairs[j].key # k].val]

\* The calls that follow a call, unless it panicked.
Then(S, F(_)) == UNION {IF g.panicked THEN {g} ELSE F(g) : g \in S}

\* A call that goes on where the code panics.
NoPanic(g) == g

\* The panic of an index out of range or of a failed type assertion.
Panic(g) == [g EXCEPT !.panicked = TRUE]

mapTypeToGo(t) ==
    CASE t = "int" -> <<"int">>
      [] t = "string" -> <<"string">>
      [] OTHER -> <<"interface", "{", "}">>

\* A resolution that takes no expression for a record.
resolveStructInfoNever(g, e) == [isStruct |-> FALSE, typeName |-> ""]

\* (isStruct, typeName) of resolveStructInfo.
RECURSIVE resolveStructInfo(_, _)
resolveStructInfo(g, e) ==
    LET No == [isStruct |-> FALSE, typeName |-> ""]
    IN  CASE e.kind = "Identifier" ->
                IF e.Value \in DOMAIN g.variableTypes /\ g.variableTypes[e.Value] # ""
                THEN [isStruct |-> TRUE, typeName |-> g.variableTypes[e.Value]]
                ELSE No
          [] e.kind = "MemberAccessExpression" ->
                LET o == resolveStructInfo(g, e.Object)
                IN  IF o.isStruct /\ o.typeName \in DOMAIN g.typeDefs
                    THEN LET fs == g.typeDefs[o.typeName].Fields
                             hits == {i \in 1..Len(fs) : fs[i].Name = e.Property}
                         IN  IF hits = {} THEN No
                             ELSE [isStruct |-> fs[CHOOSE i \in hits : \A j \in hits : i <= j].Nested # <<>>,
                                   typeName |-> ""]
                    ELSE No
          [] OTHER -> No

\* The parameter list of a function literal, as genFunctionLiteral and
\* genFunctionLiteralTopLevel render it.
Params(node) ==
    [i \in 1..Len(node.Parameters) |->
        IF node.Parameters[i] \in DOMAIN node.ParamTypes
        THEN <<node.Parameters[i]>> \o <<" ">> \o mapTypeToGo(node.ParamTypes[node.Parameters[i]])
        ELSE <<node.Parameters[i]>> \o <<" ", "interface", "{", "}">>]

RetType(node) ==
    IF node.ReturnType # "" THEN mapTypeToGo(node.ReturnType) ELSE <<"interface", "{", "}">>

RECURSIVE genExpression(_, _)
RECURSIVE genStatement(_, _)
RECURSIVE genCallExpression(_, _)
RECURSIVE genRouteExpression(_, _)
RECURSIVE genFunctionLiteral(_, _)
RECURSIVE genLetStatement(_, _)
RECURSIVE genConstStatement(_, _)

\* captureExpression: the text is left in ret, the buffer is put back.
captureExpression(g, e) ==
    {IF r.panicked THEN r ELSE [r EXCEPT !.out = g.out, !.ret = r.out] :
        r \in genExpression([g EXCEPT !.out = <<>>], e)}

\* captureExpression on each of es in turn; ret is the list of the texts.
RECURSIVE captureEach(_, _, _)
captureEach(g, es, acc) ==
    IF es = <<>> THEN {[g EXCEPT !.ret = acc]}
    ELSE Then(captureExpression(g, Head(es)),
              LAMBDA h : captureEach(h, Tail(es), Append(acc, h.ret)))

\* genStatement on each of ss in turn.
RECURSIVE genStatements(_, _)
genStatements(g, ss) ==
    IF ss = <<>> THEN {g}
    ELSE Then(genStatement(g, Head(ss)), LAMBDA h : genStatements(h, Tail(ss)))

\* The key string of a pair of a typed let's literal, left in ret.
letKey(g, k) ==
    IF k.kind \in {"StringLiteral", "Identifier"} THEN {[g EXCEPT !.ret = k.Value]}
    ELSE {IF h.panicked THEN h ELSE [h EXCEPT !.ret = Flat(h.ret)] : h \in captureExpression(g, k)}

\* The first loop of genLetStatement over ml.Pairs, visited in `order`.
RECURSIVE letPairs(_, _, _)
letPairs(g, order, acc) ==
    IF order = <<>> THEN {[g EXCEPT !.ret = acc]}
    ELSE Then(letKey(g, Head(order).key),
              LAMBDA h : letPairs(h, Tail(order), Append(acc, [key |-> h.ret, val |-> Head(order).val])))

\* The loop over a nested type's fields, nkv holding the nested literal's values.
RECURSIVE nestedPairs(_, _, _, _)
nestedPairs(g, nfs, nkv, acc) ==
    IF nfs = <<>> THEN {[g EXCEPT !.ret = acc]}
    ELSE LET nf == Head(nfs)
         IN  IF nf.Name \notin DOMAIN nkv
             THEN nestedPairs(g, Tail(nfs), nkv, Append(acc, <<capitalizeFirst(nf.Name)>> \o <<":", " ", "nil">>))
             ELSE Then(captureExpression(g, nkv[nf.Name]),
                       LAMBDA h : nestedPairs(h, Tail(nfs), nkv,
                                              Append(acc, <<capitalizeFirst(nf.Name)>> \o <<":", " ">> \o h.ret)))

\* "struct{" and the nested fields' names and types.
NestedTypeStr(tf) ==
    <<"struct", "{">>
    \o Join([i \in 1..Len(tf.Nested[1]) |->
                <<capitalizeFirst(tf.Nested[1][i].Name)>> \o <<" ">> \o mapTypeToGo(tf.Nested[1][i].Type)], <<",", " ">>)
    \o <<"}">>

\* The field of a typed let for the nested field tf given the map literal nestedMap.
nestedField(g, tf, nestedMap) ==
    UNION {Then(letPairs(g, order, <<>>),
                LAMBDA h : Then(nestedPairs(h, tf.Nested[1], Assigned(h.ret), <<>>),
                                LAMBDA k : {[k EXCEPT !.ret = <<capitalizeFirst(tf.Name)>> \o <<":", " ">> \o NestedTypeStr(tf)
                                                              \o <<"{">> \o Join(k.ret, <<",", " ">>) \o <<"}">>]})) :
             order \in Orders(nestedMap.Pairs)}

\* The loop of genLetStatement over the declared fields.
RECURSIVE declaredFields(_, _, _, _)
declaredFields(g, tfs, kv, acc) ==
    IF tfs = <<>> THEN {[g EXCEPT !.ret = acc]}
    ELSE LET tf == Head(tfs)
         IN  IF tf.Name \notin DOMAIN kv
             THEN declaredFields(g, Tail(tfs), kv, Append(acc, <<capitalizeFirst(tf.Name)>> \o <<":", " ", "nil">>))
             ELSE IF tf.Nested # <<>> /\ kv[tf.Name].kind = "MapLiteral"
             THEN Then(nestedField(g, tf, kv[tf.Name]),
                       LAMBDA h : declaredFields(h, Tail(tfs), kv, Append(acc, h.ret)))
             ELSE Then(captureExpression(g, kv[tf.Name]),
                       LAMBDA h : declaredFields(h, Tail(tfs), kv,
                                                 Append(acc, <<capitalizeFirst(tf.Name)>> \o <<":", " ">> \o h.ret)))

\* The fallback loop of genLetStatement over the sorted pairs.
RECURSIVE sortedFields(_, _, _)
sortedFields(g, pairs, acc) ==
    IF pairs = <<>> THEN {[g EXCEPT !.ret = acc]}
    ELSE Then(captureExpression(g, Head(pairs).val),
              LAMBDA h : sortedFields(h, Tail(pairs),
                                      Append(acc, <<capitalizeFirst(Head(pairs).key)>> \o <<":", " ">> \o h.ret)))

genLetStatement(g, letStmt) ==
    IF letStmt.TypeName # "" /\ letStmt.Value.kind = "MapLiteral"
    THEN LET Finish(h) ==
                 LET w == write(h, <<"var", " ">> \o <<letStmt.Name>> \o <<" ">> \o <<letStmt.TypeName>> \o <<" ", "=", " ">>
                                   \o <<letStmt.TypeName>> \o <<"{">> \o Join(h.ret, <<",", " ">>) \o <<"}", "\n">>)
                     r == [w EXCEPT !.variableTypes = Put(@, letStmt.Name, letStmt.TypeName)]
                 IN  {write(indent(r), <<"_", " ", "=", " ">> \o <<letStmt.Name>> \o <<"\n">>)}
             Fields(h, sorted) ==
                 IF letStmt.TypeName \in DOMAIN h.typeDefs
                 THEN declaredFields(h, h.typeDefs[letStmt.TypeName].Fields, Assigned(sorted), <<>>)
                 ELSE sortedFields(h, sorted, <<>>)
         IN  UNION {Then(letPairs(g, order, <<>>),
                         LAMBDA h : UNION {Then(Fields(h, sorted), Finish) : sorted \in SortedByKey(h.ret)}) :
                      order \in Orders(letStmt.Value.Pairs)}
    ELSE Then(genExpression(write(g, <<"var", " ">> \o <<letStmt.Name>> \o <<" ", "=", " ">>), letStmt.Value),
              LAMBDA h : {write(indent(write(h, <<"\n">>)), <<"_", " ", "=", " ">> \o <<letStmt.Name>> \o <<"\n">>)})

\* The loop of genConstStatement over ml.Pairs, visited in `order`.
RECURSIVE constPairs(_, _, _)
constPairs(g, order, acc) ==
    IF order = <<>> THEN {[g EXCEPT !.ret = acc]}
    ELSE LET k == Head(order).key
             Key(h) == IF k.kind = "StringLiteral" THEN {[h EXCEPT !.ret = k.Value]}
                       ELSE {IF c.panicked THEN c ELSE [c EXCEPT !.ret = Flat(c.ret)] :
                               c \in captureExpression(h, k)}
         IN  Then(Key(g),
                  LAMBDA h : Then(captureExpression(h, Head(order).val),
                                  LAMBDA c : constPairs(c, Tail(order),
                                                        Append(acc, [key |-> h.ret, val |-> c.ret]))))

genConstStatement(g, constStmt) ==
    IF constStmt.TypeName # "" /\ constStmt.Value.kind = "MapLiteral"
    THEN LET Finish(h, sorted) ==
                 LET fields == [i \in 1..Len(sorted) |->
                                   <<capitalizeFirst(sorted[i].key)>> \o <<":", " ">> \o sorted[i].val]
                     w == write(h, <<"const", " ">> \o <<constStmt.Name>> \o <<" ", "=", " ">> \o <<constStmt.TypeName>>
                                   \o <<"{">> \o Join(fields, <<",", " ">>) \o <<"}", "\n">>)
                 IN  [w EXCEPT !.variableTypes = Put(@, constStmt.Name, constStmt.TypeName)]
         IN  UNION {Then(constPairs(g, order, <<>>),
                         LAMBDA h : {Finish(h, sorted) : sorted \in SortedByKey(h.ret)}) :
                      order \in Orders(constStmt.Value.Pairs)}
    ELSE Then(genExpression(write(g, <<"const", " ">> \o <<constStmt.Name>> \o <<" ", "=", " ">>), constStmt.Value),
              LAMBDA h : {write(h, <<"\n">>)})

genReturnStatement(g, returnStmt) ==
    Then(genExpression(write(g, <<"return", " ">>), returnStmt.ReturnValue), LAMBDA h : {write(h, <<"\n">>)})

\* The lines genTypeDefinition writes for the fields from the i-th on.
RECURSIVE typeFields(_, _, _)
typeFields(g, fs, i) ==
    IF i > Len(fs) THEN g
    ELSE LET f == fs[i]
             fieldName == capitalizeFirst(f.Name)
             nestedLines(h, j) ==
                 writeLine(h, <<capitalizeFirst(f.Nested[1][j].Name)>> \o <<" ">>
                              \o mapTypeToGo(f.Nested[1][j].Type))
             RECURSIVE nested(_, _)
             nested(h, j) == IF j > Len(f.Nested[1]) THEN h ELSE nested(nestedLines(h, j), j + 1)
         IN  IF f.Nested # <<>>
             THEN LET open == [writeLine(g, <<fieldName>> \o <<" ", "struct", " ", "{">>) EXCEPT !.indentlevel = @ + 1]
                      body == nested(open, 1)
                  IN  typeFields(writeLine([body EXCEPT !.indentlevel = @ - 1], <<"}">>), fs, i + 1)
             ELSE typeFields(writeLine(g, <<fieldName>> \o <<" ">> \o mapTypeToGo(f.Type)), fs, i + 1)

genTypeDefinition(g, td) ==
    LET open == [writeLine(g, <<"type", " ">> \o <<td.Name>> \o <<" ", "struct", " ", "{">>) EXCEPT !.indentlevel = @ + 1]
        body == typeFields(open, td.Fields, 1)
        close == writeLine([body EXCEPT !.indentlevel = @ - 1], <<"}">>)
    IN  {[close EXCEPT !.typeDefs = Put(@, td.Name, td)]}

genStatement(g, stmt) ==
    LET h == indent(g)
    IN  CASE stmt.kind = "LetStatement" -> genLetStatement(h, stmt)
          [] stmt.kind = "ConstStatement" -> genConstStatement(h, stmt)
          [] stmt.kind = "TypeDefinition" -> genTypeDefinition(h, stmt)
          [] stmt.kind = "ReturnStatement" -> genReturnStatement(h, stmt)
          [] stmt.kind = "ExpressionStatement" ->
                IF stmt.Expression.kind = "FunctionLiteral" /\ stmt.Expression.Name # <<>>
                THEN {h}
                ELSE Then(genExpression(h, stmt.Expression), LAMBDA k : {write(k, <<"\n">>)})
          [] OTHER -> {h}

\* The pairs of an untyped map literal, rendered in the order of the visit.
RECURSIVE mapPairs(_, _, _)
mapPairs(g, order, acc) ==
    IF order = <<>> THEN {[g EXCEPT !.ret = acc]}
    ELSE LET k == Head(order).key
             Key(h) == IF k.kind \in {"StringLiteral", "Identifier"}
                       THEN {[h EXCEPT !.ret = <<"\"">> \o Chars(k.Value) \o <<"\"">>]}
                       ELSE {IF c.panicked THEN c ELSE [c EXCEPT !.ret = <<"\"">> \o c.ret \o <<"\"">>] :
                               c \in captureExpression(h, k)}
         IN  Then(Key(g),
                  LAMBDA h : Then(captureExpression(h, Head(order).val),
                                  LAMBDA c : mapPairs(c, Tail(order), Append(acc, h.ret \o <<":", " ">> \o c.ret))))

genExpression(g, node) ==
    CASE node.kind = "IntegerLiteral" -> {write(g, <<ToString(node.Value)>>)}
      [] node.kind = "StringLiteral" -> {write(g, <<"\"">> \o Chars(node.Value) \o <<"\"">>)}
      [] node.kind = "Identifier" -> {write(g, <<node.Value>>)}
      [] node.kind = "ListLiteral" ->
            Then(captureEach(g, node.Elements, <<>>),
                 LAMBDA h : {write(h, <<"[", "]", "interface", "{", "}", "{">> \o Join(h.ret, <<",", " ">>) \o <<"}">>)})
      [] node.kind = "MapLiteral" ->
            UNION {Then(mapPairs(g, order, <<>>),
                        LAMBDA h : {write(h, <<"map", "[", "string", "]", "interface", "{", "}", "{">> \o Join(h.ret, <<",", " ">>) \o <<"}">>)}) :
                     order \in Orders(node.Pairs)}
      [] node.kind = "IndexExpression" ->
            Then(captureExpression(g, node.Left),
                 LAMBDA l : Then(captureExpression(l, node.Index),
                                 LAMBDA i : {write(i, IF Contains(l.ret, "[")
                                                      THEN l.ret \o <<".", "(", "map", "[", "string", "]", "interface", "{", "}", ")", "[">> \o i.ret \o <<"]">>
                                                      ELSE l.ret \o <<"[">> \o i.ret \o <<"]">>)}))
      [] node.kind = "MemberAccessExpression" ->
            IF resolveStructInfo(g, node.Object).isStruct
            THEN Then(genExpression(g, node.Object),
                      LAMBDA h : {write(write(h, <<".">>), <<capitalizeFirst(node.Property)>>)})
            ELSE Then(captureExpression(g, node.Object),
                      LAMBDA l : {write(l, IF Contains(l.ret, "[")
                                           THEN l.ret \o <<".", "(", "map", "[", "string", "]", "interface", "{", "}", ")", "[", "\"">> \o <<node.Property>> \o <<"\"", "]">>
                                           ELSE l.ret \o <<"[", "\"">> \o <<node.Property>> \o <<"\"", "]">>)})
      [] node.kind = "InfixExpression" ->
            Then(genExpression(write(g, <<"(">>), node.Left),
                 LAMBDA l : Then(genExpression(write(l, <<" ">> \o <<node.Operator>> \o <<" ">>), node.Right),
                                 LAMBDA r : {write(r, <<")">>)}))
      [] node.kind = "FunctionLiteral" ->
            Then(genFunctionLiteral(g, node), LAMBDA h : {write(h, h.ret)})
      [] node.kind = "CallExpression" -> genCallExpression(g, node)
      [] OTHER -> {g}

\* The text is left in ret; the closing brace's indentation goes to g.out.
genFunctionLiteral(g, node) ==
    LET head == <<"func", "(">> \o Join(Params(node), <<",", " ">>) \o <<")", " ">> \o RetType(node) \o <<" ", "{">>
        hasReturn == \E i \in 1..Len(node.Body) : node.Body[i].kind = "ReturnStatement"
    IN  {IF bodyGen.panicked THEN Panic(g)
         ELSE [indent(g) EXCEPT !.ret =
                  head \o <<"\n">>
                  \o (IF hasReturn THEN bodyGen ELSE writeLine(bodyGen, <<"return", " ", "nil">>)).out
                  \o <<"}">>] :
            bodyGen \in genStatements([NewGenerator EXCEPT !.indentlevel = g.indentlevel + 1], node.Body)}

\* The text of a named function's declaration is left in ret.
genFunctionLiteralTopLevel(g, node) ==
    LET head == <<"func", " ">> \o <<node.Name[1]>> \o <<"(">> \o Join(Params(node), <<",", " ">>) \o <<")", " ">>
                \o RetType(node) \o <<" ", "{">>
    IN  {IF bodyGen.panicked THEN Panic(g)
         ELSE [g EXCEPT !.ret = head \o <<"\n">> \o bodyGen.out \o <<"}">>] :
            bodyGen \in genStatements(NewGenerator, node.Body)}

genCallExpression(g, node) ==
    LET isServer == /\ node.Function.kind = "MemberAccessExpression"
                    /\ node.Function.Object.kind = "Identifier"
                    /\ node.Function.Object.Value = "server"
        FirstArgument(h) ==
            IF node.Arguments = <<>> THEN {Panic(h)} ELSE captureExpression(h, node.Arguments[1])
    IN  IF isServer /\ node.Function.Property = "serve"
        THEN Then(FirstArgument([g EXCEPT !.requiresHttp = TRUE, !.requiresLog = TRUE]),
                  LAMBDA h : {write(h, <<"log", ".", "Fatal", "(", "http", ".", "ListenAndServe", "(", "\"", ":">> \o h.ret \o <<"\"", ",", " ", "nil", ")", ")">>)})
        ELSE IF isServer /\ node.Function.Property = "static"
        THEN Then(FirstArgument([g EXCEPT !.requiresHttp = TRUE]),
                  LAMBDA h : {write(h, <<"http", ".", "Handle", "(", "\"", "/", "\"", ",", " ", "http", ".", "FileServer", "(", "http", ".", "Dir", "(">> \o h.ret \o <<")", ")", ")">>)})
        ELSE IF isServer /\ node.Function.Property = "route"
        THEN genRouteExpression(g, node)
        ELSE IF node.Function.kind = "Identifier" /\ node.Function.Value = "print"
        THEN Then(captureEach([g EXCEPT !.requiresFmt = TRUE], node.Arguments, <<>>),
                  LAMBDA h : {write(h, <<"fmt", ".", "Println", "(">> \o Join(h.ret, <<",", " ">>) \o <<")">>)})
        ELSE Then(genExpression(g, node.Function),
                  LAMBDA f : Then(captureEach(write(f, <<"(">>), node.Arguments, <<>>),
                                  LAMBDA h : {write(write(h, Join(h.ret, <<",", " ">>)), <<")">>)}))

\* A loop over a route handler's statements that lowers the last one first.
RECURSIVE handlerStatementsLastFirst(_, _, _, _)
handlerStatementsLastFirst(hg, ss, before, after) ==
    IF ss = <<>> THEN {hg}
    ELSE Then(handlerStatementsLastFirst(hg, Tail(ss), before, after), LAMBDA h :
              IF Head(ss).kind = "ReturnStatement"
              THEN Then(captureExpression(write(indent(h), before), Head(ss).ReturnValue),
                        LAMBDA c : {write(write(c, c.ret), after)})
              ELSE genStatement(h, Head(ss)))

\* The loop over a route handler's statements: a return binds returnValue.
RECURSIVE handlerStatements(_, _, _, _)
handlerStatements(hg, ss, before, after) ==
    IF ss = <<>> THEN {hg}
    ELSE IF Head(ss).kind = "ReturnStatement"
    THEN Then(captureExpression(write(indent(hg), before), Head(ss).ReturnValue),
              LAMBDA c : handlerStatements(write(write(c, c.ret), after), Tail(ss), before, after))
    ELSE Then(genStatement(hg, Head(ss)), LAMBDA h : handlerStatements(h, Tail(ss), before, after))

\* What writeLine appends at an indentation level.
Line(level, s) == Tabs(level) \o s \o <<"\n">>

\* The lines that bind the path parameters, for the parts from the i-th on.
RECURSIVE paramLines(_, _, _)
paramLines(level, parts, i) ==
    IF i > Len(parts) THEN <<>>
    ELSE (IF HasPrefix(parts[i], ":")
          THEN Line(level, <<"if", " ", "len", "(", "pathParts", ")", " ", ">", " ">> \o <<ToString(i - 1)>> \o <<" ", "{", " ", "params", "[", "\"">>
                           \o Tail(parts[i]) \o <<"\"", "]", " ", "=", " ", "pathParts", "[">> \o <<ToString(i - 1)>> \o <<"]", " ", "}">>)
          ELSE <<>>)
         \o paramLines(level, parts, i + 1)

\* The registration pattern for a template with dynamic segments.
Prefix(parts) ==
    LET firstDyn == CHOOSE i \in 1..Len(parts) :
                        HasPrefix(parts[i], ":") /\ \A j \in 1..(i - 1) : ~HasPrefix(parts[j], ":")
        cleaned == SelectSeq(SubSeq(parts, 1, firstDyn - 1), LAMBDA pp : pp # <<>>)
    IN  IF cleaned # <<>> THEN <<"/">> \o Join(cleaned, <<"/">>) \o <<"/">> ELSE <<"/">>

\* The lines that prepare the req map.
queryLines(level) ==
    Line(level, <<"query", " ", ":", "=", " ", "make", "(", "map", "[", "string", "]", "interface", "{", "}", ")">>)
    \o Line(level, <<"for", " ", "k", ",", " ", "v", " ", ":", "=", " ", "range", " ", "r", ".", "URL", ".", "Query", "(", ")", " ", "{">>)
    \o Line(level + 1, <<"if", " ", "len", "(", "v", ")", " ", ">", " ", "0", " ", "{", " ", "query", "[", "k", "]", " ", "=", " ", "v", "[", "0", "]", " ", "}">>)
    \o Line(level, <<"}">>)
    \o Line(level, <<"req", " ", ":", "=", " ", "make", "(", "map", "[", "string", "]", "interface", "{", "}", ")">>)
    \o Line(level, <<"req", "[", "\"", "query", "\"", "]", " ", "=", " ", "query">>)

\* The lines that fill the params map.
pathLines(level, parts) ==
    Line(level, <<"pathParts", " ", ":", "=", " ", "strings", ".", "Split", "(", "strings", ".", "Trim", "(", "r", ".", "URL", ".", "Path", ",", " ", "\"", "/", "\"", ")", ",", " ", "\"", "/", "\"", ")">>)
    \o Line(level, <<"params", " ", ":", "=", " ", "make", "(", "map", "[", "string", "]", "interface", "{", "}", ")">>)
    \o Line(level, <<"/", "/", " ", "naive", " ", "mapping", ":", " ", "match", " ", "positions">>)
    \o Line(level, <<"for", " ", "i", ",", " ", "part", " ", ":", "=", " ", "range", " ", "pathParts", " ", "{">>)
    \o Line(level + 1, <<"_", " ", "=", " ", "i", ";", " ", "_", " ", "=", " ", "part">>)
    \o Line(level, <<"}">>)
    \o paramLines(level, parts, 1)
    \o Line(level, <<"req", "[", "\"", "params", "\"", "]", " ", "=", " ", "params">>)

\* The lines that read the body of a POST or PUT, and the log line.
bodyLines(level) ==
    Line(level, <<"if", " ", "r", ".", "Method", " ", "=", "=", " ", "\"", "POST", "\"", " ", "|", "|", " ", "r", ".", "Method", " ", "=", "=", " ", "\"", "PUT", "\"", " ", "{">>)
    \o Line(level + 1, <<"r", ".", "Body", " ", "=", " ", "http", ".", "MaxBytesReader", "(", "w", ",", " ", "r", ".", "Body", ",", " ", "1", "<", "<", "20", ")", " ", "/", "/", " ", "limit", " ", "to", " ", "1MB">>)
    \o Line(level + 1, <<"defer", " ", "r", ".", "Body", ".", "Close", "(", ")">>)
    \o Line(level + 1, <<"bodyBytes", ",", " ", "err", " ", ":", "=", " ", "ioutil", ".", "ReadAll", "(", "r", ".", "Body", ")">>)
    \o Line(level + 1, <<"if", " ", "err", " ", "!", "=", " ", "nil", " ", "{", " ", "http", ".", "Error", "(", "w", ",", " ", "\"", "failed", " ", "to", " ", "read", " ", "body", "\"", ",", " ", "http", ".", "StatusBadRequest", ")", ";", " ", "return", " ", "}">>)
    \o Line(level + 1, <<"if", " ", "len", "(", "bodyBytes", ")", " ", ">", " ", "0", " ", "{", " ", "var", " ", "bodyObj", " ", "interface", "{", "}", ";", " ", "if", " ", "err", " ", ":", "=", " ", "json", ".", "Unmarshal", "(", "bodyBytes", ",", " ", "&", "bodyObj", ")", ";", " ", "err", " ", "!", "=", " ", "nil", " ", "{", " ", "http", ".", "Error", "(", "w", ",", " ", "\"", "invalid", " ", "JSON", "\"", ",", " ", "http", ".", "StatusBadRequest", ")", ";", " ", "return", " ", "}", ";", " ", "req", "[", "\"", "body", "\"", "]", " ", "=", " ", "bodyObj", " ", "}">>)
    \o Line(level, <<"}">>)
    \o Line(level, <<"log", ".", "Printf", "(", "\"", "%", "s", " ", "%", "s", "\"", ",", " ", "r", ".", "Method", ",", " ", "r", ".", "URL", ".", "Path", ")">>)

\* The lines of the serialization block.
serializationLines(level) ==
    Line(level, <<"switch", " ", "rv", " ", ":", "=", " ", "returnValue", ".", "(", "type", ")", " ", "{">>)
    \o Line(level + 1, <<"case", " ", "string", ":">>)
    \o Line(level + 2, <<"fmt", ".", "Fprint", "(", "w", ",", " ", "rv", ")">>)
    \o Line(level + 1, <<"default", ":">>)
    \o Line(level + 2, <<"b", ",", " ", "_", " ", ":", "=", " ", "json", ".", "Marshal", "(", "rv", ")">>)
    \o Line(level + 2, <<"w", ".", "Header", "(", ")", ".", "Set", "(", "\"", "Content", "-", "Type", "\"", ",", " ", "\"", "application", "/", "json", "\"", ")">>)
    \o Line(level + 2, <<"w", ".", "Write", "(", "b", ")">>)
    \o Line(level, <<"}">>)

genRouteExpression(g, node) ==
    IF node.Arguments = <<>> THEN {Panic(g)}
    ELSE Then(captureExpression(g, node.Arguments[1]), LAMBDA g1 :
    LET rawPath == g1.ret
    IN  IF Len(node.Arguments) < 2 \/ node.Arguments[2].kind # "FunctionLiteral" THEN {Panic(g1)}
        ELSE
    LET handler == node.Arguments[2]
        level == g1.indentlevel + 1
    IN  IF Len(handler.Parameters) = 0
        THEN LET g2 == [g1 EXCEPT !.requiresHttp = TRUE, !.requiresFmt = TRUE,
                                  !.out = @ \o <<"http", ".", "HandleFunc", "(">> \o rawPath
                                          \o <<",", " ", "wrapHandler", "(", "func", "(", "w", " ", "http", ".", "ResponseWriter", ",", " ", "r", " ", "*", "http", ".", "Request", ")", " ", "{", "\n">>,
                                  !.indentlevel = level]
             IN  {IF hg.panicked THEN Panic(g2)
                  ELSE [g2 EXCEPT !.out = @ \o hg.out \o Line(level, <<"fmt", ".", "Fprint", "(", "w", ",", " ", "returnValue", ")">>)
                                          \o Tabs(level - 1) \o <<"}", ")">>,
                                  !.indentlevel = level - 1] :
                     hg \in handlerStatements([NewGenerator EXCEPT !.indentlevel = level],
                                              handler.Body, <<"returnValue", " ", ":", "=", " ">>, <<"\n">>)}
        ELSE LET pathStr == Trim(rawPath, "\"")
                 parts == Split(Trim(pathStr, "/"), "/")
                 paramNames == SelectSeq(parts, LAMBDA p : HasPrefix(p, ":"))
                 regPattern == IF Len(paramNames) > 0 THEN <<"\"">> \o Prefix(parts) \o <<"\"">> ELSE rawPath
                 g2 == [g1 EXCEPT !.requiresHttp = TRUE, !.requiresFmt = TRUE, !.requiresLog = TRUE,
                                  !.requiresJson = TRUE, !.requiresIo = TRUE,
                                  !.requiresStrings = @ \/ Len(paramNames) > 0,
                                  !.out = @ \o <<"http", ".", "HandleFunc", "(">> \o regPattern
                                          \o <<",", " ", "func", "(", "w", " ", "http", ".", "ResponseWriter", ",", " ", "r", " ", "*", "http", ".", "Request", ")", " ", "{", "\n">>
                                          \o queryLines(level)
                                          \o (IF Len(paramNames) > 0 THEN pathLines(level, parts) ELSE <<>>)
                                          \o bodyLines(level),
                                  !.indentlevel = level]
             IN  {IF hg.panicked THEN Panic(g2)
                  ELSE [g2 EXCEPT !.out = @ \o hg.out \o serializationLines(level) \o Tabs(level - 1) \o <<"}", ")">>,
                                  !.indentlevel = level - 1] :
                     hg \in handlerStatements(
                               [NewGenerator EXCEPT !.indentlevel = level, !.out = Line(level, <<"/", "/", " ", "handler", " ", "logic">>)],
                               handler.Body, <<"returnValue", " ", ":", "=", " ", "interface", "{", "}", "(">>, <<")", "\n">>)})

\* The first loop of genProgram: the named functions, ahead of main.
RECURSIVE namedFunctions(_, _)
namedFunctions(g, stmts) ==
    IF stmts = <<>> THEN {g}
    ELSE LET stmt == Head(stmts)
             held == IF stmt.kind = "ExpressionStatement" THEN <<stmt.Expression>>
                     ELSE IF stmt.kind = "LetStatement" THEN <<stmt.Value>>
                     ELSE <<>>
         IN  IF held # <<>> /\ held[1].kind = "FunctionLiteral" /\ held[1].Name # <<>>
             THEN Then(genFunctionLiteralTopLevel(g, held[1]),
                       LAMBDA h : namedFunctions(writeLine(h, h.ret), Tail(stmts)))
             ELSE namedFunctions(g, Tail(stmts))

\* The helper genProgram writes when requiresMiddleware is set.
Middleware(g) ==
    LET m1 == writeLine(g, <<"var", " ", "middlewares", " ", "[", "]", "func", "(", "http", ".", "HandlerFunc", ")", " ", "http", ".", "HandlerFunc">>)
        m2 == [writeLine(m1, <<"func", " ", "wrapHandler", "(", "h", " ", "http", ".", "HandlerFunc", ")", " ", "http", ".", "HandlerFunc", " ", "{">>) EXCEPT !.indentlevel = @ + 1]
        m3 == [writeLine(m2, <<"for", " ", "i", " ", ":", "=", " ", "len", "(", "middlewares", ")", "-", "1", ";", " ", "i", " ", ">", "=", " ", "0", ";", " ", "i", "-", "-", " ", "{">>) EXCEPT !.indentlevel = @ + 1]
        m4 == [writeLine(m3, <<"h", " ", "=", " ", "middlewares", "[", "i", "]", "(", "h", ")">>) EXCEPT !.indentlevel = @ - 1]
        m5 == writeLine(m4, <<"}">>)
        m6 == [writeLine(m5, <<"return", " ", "h">>) EXCEPT !.indentlevel = @ - 1]
    IN  writeLine(m6, <<"}">>)

genProgram(g, prog) ==
    Then(namedFunctions(g, prog),
         LAMBDA f :
            LET m == IF f.requiresMiddleware THEN Middleware(f) ELSE f
                open == [writeLine(m, <<"func", " ", "main", "(", ")", " ", "{">>) EXCEPT !.indentlevel = @ + 1]
            IN  Then(genStatements(open, prog),
                     LAMBDA h : {writeLine([h EXCEPT !.indentlevel = @ - 1], <<"}">>)}))

\* The header Generate builds from the requires flags.
Header(g) ==
    IF g.requiresHttp \/ g.requiresLog \/ g.requiresFmt
    THEN <<"import", " ", "(", "\n">>
         \o (IF g.requiresFmt THEN <<"\t", "\"", "fmt", "\"", "\n">> ELSE <<>>)
         \o (IF g.requiresLog THEN <<"\t", "\"", "log", "\"", "\n">> ELSE <<>>)
         \o (IF g.requiresHttp THEN <<"\t", "\"", "net", "/", "http", "\"", "\n">> ELSE <<>>)
         \o (IF g.requiresJson THEN <<"\t", "\"", "encoding", "/", "json", "\"", "\n">> ELSE <<>>)
         \o (IF g.requiresIo THEN <<"\t", "\"", "io", "/", "ioutil", "\"", "\n">> ELSE <<>>)
         \o (IF g.requiresStrings THEN <<"\t", "\"", "strings", "\"", "\n">> ELSE <<>>)
         \o <<")", "\n", "\n">>
    ELSE <<>>

\* What Generate can return for prog: the text, or nothing when it panics.
GenerateOutcomes(prog) ==
    {IF g.panicked THEN [status |-> "panic", text |-> <<>>]
     ELSE [status |-> "ok", text |-> <<"package", " ", "main", "\n", "\n">> \o Header(g) \o g.out] :
        g \in genProgram(NewGenerator, prog)}

Generate ==
    /\ pc = "ready"
    /\ code' \in GenerateOutcomes(program)
    /\ pc' = "done"
    /\ UNCHANGED <<program, errs, files, stack, visited, out, run, gen>>

NextGenerate == Generate

(***************************************************************************)
(* The programs Generate is run on.                                        *)
(***************************************************************************)
\* Field lists nested to depth d, declared in an order that is not the
\* alphabetical one: `name` and `id`, or a nested `sub` and `id`.
RECURSIVE GenFields(_)
GenFields(d) ==
    IF d = 0
    THEN {<<Field("name", "string", <<>>), Field("id", "int", <<>>)>>}
    ELSE GenFields(d - 1)
         \cup {<<Field("sub", "", <<fs>>), Field("id", "int", <<>>)>> : fs \in GenFields(d - 1)}

\* The map literals for a field list: each field is left out, or given a
\* literal of its kind, or (a nested field) an integer or a nested literal.
RECURSIVE LiteralsFor(_)
LiteralsFor(fields) ==
    LET Values(f) ==
            IF f.Nested # <<>> THEN {IntegerLiteral} \cup LiteralsFor(f.Nested[1])
            ELSE IF f.Type = "int" THEN {IntegerLiteral} ELSE {StringLiteral("x")}
        Choices(f) == {{}} \cup {{Pair(Identifier(f.Name), v)} : v \in Values(f)}
    IN  {MapLiteral(a \cup b) : a \in Choices(fields[1]), b \in Choices(fields[2])}

\* A literal that writes `id` twice, and one with a key no field declares.
OddLiterals ==
    {MapLiteral({Pair(StringLiteral("id"), IntegerLiteralOf(1)), Pair(Identifier("id"), IntegerLiteralOf(2)),
                 Pair(Identifier("name"), StringLiteral("x"))}),
     MapLiteral({Pair(StringLiteral("name"), StringLiteral("x")), Pair(Identifier("id"), IntegerLiteral),
                 Pair(Identifier("age"), IntegerLiteral)})}

\* A type definition and a let or const annotated with it (or with a type
\* nothing defines), the definition before or after the binding.
TypedPrograms ==
    {IF first
     THEN <<TypeDefinition("User", fs), Binding(kind, "User", lit)>>
     ELSE <<Binding(kind, "User", lit), TypeDefinition("User", fs)>> :
        fs \in GenFields(MaxDepth), lit \in UNION {LiteralsFor(gs) : gs \in GenFields(MaxDepth)} \cup OddLiterals,
        kind \in {"LetStatement", "ConstStatement"}, first \in BOOLEAN}

\* server.route(path, fn(params) { body })
Route(path, params, body) ==
    ExpressionStatement(CallExpression(MemberAccessExpression(Identifier("server"), "route"),
                                       <<StringLiteral(path), FunctionLiteral(<<>>, params, <<>>, body)>>))

Server(method, arguments) ==
    ExpressionStatement(CallExpression(MemberAccessExpression(Identifier("server"), method), arguments))

\* The builtin forms: print, serve, static, and route with a handler without
\* and with a parameter, without and with a path parameter.
BuiltinForms ==
    {ExpressionStatement(CallExpression(Identifier("print"), <<IntegerLiteral>>)),
     Server("serve", <<IntegerLiteralOf(8080)>>),
     Server("static", <<StringLiteral("public")>>),
     Route("/", <<>>, <<ReturnStatement(StringLiteral("hi"))>>),
     Route("/", <<"req">>, <<ReturnStatement(Identifier("req"))>>),
     Route("/users/:id", <<"req">>, <<ReturnStatement(Identifier("req"))>>)}

Depths == {"top", "list", "function literal", "named function", "handler", "handler with req"}

\* The statement that holds the statement s at a nesting depth.
Nest(s, depth) ==
    CASE depth = "top" -> s
      [] depth = "list" -> ExpressionStatement(ListLiteral(<<s.Expression>>))
      [] depth = "function literal" -> LetStatement("h", "", FunctionLiteral(<<>>, <<>>, <<>>, <<s>>))
      [] depth = "named function" -> ExpressionStatement(FunctionLiteral(<<"f">>, <<>>, <<>>, <<s>>))
      [] depth = "handler" -> Route("/", <<>>, <<s, ReturnStatement(StringLiteral("hi"))>>)
      [] depth = "handler with req" -> Route("/", <<"req">>, <<s, ReturnStatement(Identifier("req"))>>)

\* One builtin form at some depth, alone or ahead of a top-level form.
BuiltinPrograms ==
    {<<Nest(b, d)>> : b \in BuiltinForms, d \in Depths}
    \cup {<<Nest(b, d), c>> : b \in BuiltinForms, c \in BuiltinForms, d \in Depths}

\* The route templates: static, with one or two path parameters, without
\* the leading slash, with a trailing slash, with an empty segment.
RoutePaths ==
    {"/", "/users", "/users/:id", "/users/:id/posts/:pid", "/:id", ":id", "users/:id/",
     "/api//v1/:id/x"}

\* Handler bodies: one return, a statement and a return, no return, two returns.
HandlerBodies ==
    {<<ReturnStatement(StringLiteral("hi"))>>,
     <<ReturnStatement(Identifier("req"))>>,
     <<ExpressionStatement(CallExpression(Identifier("print"), <<IntegerLiteral>>)),
       ReturnStatement(StringLiteral("hi"))>>,
     <<LetStatement("x", "", IntegerLiteral), ReturnStatement(Identifier("x"))>>,
     <<>>,
     <<ReturnStatement(StringLiteral("a")), ReturnStatement(StringLiteral("b"))>>}

\* One route call, or two route calls of handlers with a parameter.
RoutePrograms ==
    {<<Route(path, params, body)>> :
        path \in RoutePaths, params \in {<<>>, <<"req">>}, body \in HandlerBodies}
    \cup {<<Route(p, <<"req">>, <<ReturnStatement(Identifier("req"))>>),
            Route(q, <<"req">>, <<ReturnStatement(StringLiteral("hi"))>>)>> :
             p \in RoutePaths, q \in RoutePaths}

\* A record type with a record nested in a nested record, and a literal of it.
UserFields ==
    <<Field("sub", "", <<<<Field("sub", "", <<<<Field("name", "string", <<>>), Field("id", "int", <<>>)>>>>),
                          Field("id", "int", <<>>)>>>>),
      Field("id", "int", <<>>)>>

UserLiteral ==
    MapLiteral({Pair(Identifier("id"), IntegerLiteral),
                Pair(Identifier("sub"), MapLiteral({Pair(Identifier("id"), IntegerLiteral)}))})

\* The bindings of u: typed to a map literal by let and by const, untyped,
\* and typed to a value that is not a map literal.
MemberBindings ==
    {Binding("LetStatement", "User", UserLiteral), Binding("ConstStatement", "User", UserLiteral),
     LetStatement("u", "", UserLiteral), LetStatement("u", "User", Identifier("other"))}

\* Member accesses on u and its fields to depth three, on a field nothing
\* declares, on an unbound name, on an index expression, on a string that
\* holds a bracket and on a list.
MemberAccesses20 ==
    LET u == Identifier("u")
        req == Identifier("req")
        Dot(o, p) == MemberAccessExpression(o, p)
    IN  {Dot(u, "id"), Dot(u, "sub"), Dot(Dot(u, "sub"), "id"), Dot(Dot(u, "sub"), "sub"),
         Dot(Dot(Dot(u, "sub"), "sub"), "name"), Dot(Dot(u, "bogus"), "name"),
         Dot(req, "query"), Dot(Dot(req, "query"), "id"),
         Dot(IndexExpression(req, StringLiteral("params")), "id"),
         Dot(StringLiteral("a[0]"), "n"), Dot(ListLiteral(<<IntegerLiteral>>), "n")}

PrintOf(e) == ExpressionStatement(CallExpression(Identifier("print"), <<e>>))

\* A binding of u and a print of a member access, with the definition of
\* User nowhere, first, between the two or last: at the top level, all in
\* the body of a function literal, or the print alone in the body.
AccessPrograms ==
    LET def == TypeDefinition("User", UserFields)
        Lists(b, a) == {<<b, PrintOf(a)>>, <<def, b, PrintOf(a)>>, <<b, def, PrintOf(a)>>,
                        <<b, PrintOf(a), def>>}
        Body(ss) == LetStatement("h", "", FunctionLiteral(<<>>, <<>>, <<>>, ss))
        Handler(params, ss) == Route("/", params, ss \o <<ReturnStatement(StringLiteral("hi"))>>)
    IN  UNION {Lists(b, a) \cup {<<Body(ss)>> : ss \in Lists(b, a)}
               \cup {<<def, b, Body(<<PrintOf(a)>>)>>,
                     <<def, b, Handler(<<>>, <<PrintOf(a)>>)>>,
                     <<def, b, Handler(<<"req">>, <<PrintOf(a)>>)>>} :
                 b \in MemberBindings, a \in MemberAccesses20}

\* Builtin calls of a malformed shape: serve and static without an argument,
\* route with no argument, with one, and with a second that is no function.
MalformedForms ==
    {Server("serve", <<>>), Server("static", <<>>), Server("route", <<>>),
     Server("route", <<StringLiteral("/")>>),
     Server("route", <<StringLiteral("/"), IntegerLiteral>>),
     Server("route", <<StringLiteral("/"), Identifier("h")>>)}

\* Builtin calls of unusual but well-formed shapes: arguments of other kinds,
\* an argument too many, a print of nothing.
UnusualForms ==
    {Server("serve", <<StringLiteral("x"), IntegerLiteral>>), Server("static", <<Identifier("dir")>>),
     Server("route", <<Identifier("p"), FunctionLiteral(<<>>, <<"req">>, <<>>, <<>>), IntegerLiteral>>),
     Server("route", <<IntegerLiteral, FunctionLiteral(<<>>, <<>>, <<>>, <<>>)>>),
     ExpressionStatement(CallExpression(Identifier("print"), <<>>)),
     Server("stop", <<>>)}

\* One such call at some depth, alone, or after or ahead of a well-formed one.
ShapePrograms ==
    LET print == ExpressionStatement(CallExpression(Identifier("print"), <<IntegerLiteral>>))
    IN  UNION {{<<Nest(b, d)>>, <<print, Nest(b, d)>>, <<Nest(b, d), print>>} :
                 b \in MalformedForms \cup UnusualForms, d \in Depths}

\* Top-level named function literals, standing as a statement or as the value
\* of a let, each with a body of its own: fn f() { print("f") }.
Named(name) ==
    FunctionLiteral(<<name>>, <<>>, <<>>, <<PrintOf(StringLiteral(name))>>)

NamedStatements ==
    {ExpressionStatement(Named("f")), LetStatement("h", "", Named("g")),
     PrintOf(IntegerLiteral)}

NamedPrograms ==
    {p \in SeqsUpTo(NamedStatements, 3) :
        p # <<>> /\ \A i, j \in DOMAIN p : p[i] = p[j] => i = j}

GenPrograms ==
    TypedPrograms \cup BuiltinPrograms \cup RoutePrograms \cup AccessPrograms \cup ShapePrograms
    \cup NamedPrograms

InitGenerate ==
    /\ program \in GenPrograms
    /\ errs = <<>>
    /\ pc = "ready"
    /\ NoImports
    /\ NotGenerated
    /\ NotRun
    /\ NoGenerator

SpecGenerate == InitGenerate /\ [][NextGenerate]_vars

(***************************************************************************)
(* The command line: func main of cmd/pisuke.  One run reads its           *)
(* arguments and the input file, inlines the imports, and then either      *)
(* prints tokens, tree and generated code (debug) or parses, generates,    *)
(* writes the Go file and compiles it (build).  os.Exit ends the run at    *)
(* once with the status given; falling off the end of main is status 0; a  *)
(* panic in Generate ends the process with status 2.                       *)
(*                                                                         *)
(* What the file system, the parser and the Go toolchain answer is the     *)
(* environment's choice at the step that asks.                             *)
(***************************************************************************)

\* os.Args: the program name, then what the user typed.
CommandLines ==
    {<<"pisuke">>, <<"pisuke", "build">>,
     <<"pisuke", "build", "a.psk">>, <<"pisuke", "debug", "a.psk">>,
     <<"pisuke", "run", "a.psk">>}

\* What p.ParseProgram can hand back: the tree of the statements it managed
\* to parse, which after an error is whatever was parsed around it.
ParsedPrograms ==
    {<<>>} \cup {<<s>> : s \in BuiltinForms} \cup
    {<<Server("serve", <<>>)>>, <<Server("static", <<>>)>>}

\* p.Errors after ParseProgram: nothing, or the messages collected.
ParserErrors == {<<>>, <<"no prefix parse function for ILLEGAL found">>}

\* command := os.Args[1]
command == IF Len(run.args) > 1 THEN run.args[2] ELSE ""

InitMain ==
    /\ program = <<>>
    /\ errs = <<>>
    /\ pc = "start"
    /\ NoImports
    /\ NotGenerated
    /\ NoGenerator
    /\ run \in {[args |-> a, parserErrors |-> <<>>, generated |-> FALSE, exit |-> NoExit] :
                   a \in CommandLines}

\* os.Exit(status), or main returning (status 0), or the runtime's exit
\* after an unrecovered panic (status 2).
Exit(status) ==
    /\ pc' = "exited"
    /\ run' = [run EXCEPT !.exit = status]

\* if len(os.Args) < 3 { usage; os.Exit(1) }
CheckArguments ==
    /\ pc = "start"
    /\ IF Len(run.args) < 3 THEN Exit(1) ELSE pc' = "read" /\ UNCHANGED run
    /\ UNCHANGED <<program, errs, files, stack, visited, out, code, gen>>

\* data, err := ioutil.ReadFile(inputFile)
ReadInput ==
    /\ pc = "read"
    /\ \E ok \in BOOLEAN :
          IF ok THEN pc' = "imports" /\ UNCHANGED run ELSE Exit(1)
    /\ UNCHANGED <<program, errs, files, stack, visited, out, code, gen>>

\* processed, err := preprocessImports(inputFile, string(data))
InlineImports ==
    /\ pc = "imports"
    /\ \E ok \in BOOLEAN :
          IF ok THEN pc' = "command" /\ UNCHANGED run ELSE Exit(1)
    /\ UNCHANGED <<program, errs, files, stack, visited, out, code, gen>>

\* switch command: a command that is neither debug nor build matches no
\* case, and main returns.
Command ==
    /\ pc = "command"
    /\ CASE command = "debug" -> pc' = "debug" /\ UNCHANGED run
         [] command = "build" -> pc' = "build" /\ UNCHANGED run
         [] OTHER -> Exit(0)
    /\ UNCHANGED <<program, errs, files, stack, visited, out, code, gen>>

\* case "debug", up to the tree: the tokens are printed, the text is parsed
\* and the tree printed.  p.Errors is not read.
DebugParse ==
    /\ pc = "debug"
    /\ \E parsed \in ParsedPrograms, messages \in ParserErrors :
          /\ program' = parsed
          /\ run' = [run EXCEPT !.parserErrors = messages]
    /\ pc' = "debug generate"
    /\ UNCHANGED <<errs, files, stack, visited, out, code, gen>>

\* case "debug", the rest: generatedCode := codegen.Generate(program), and
\* the text is printed.
DebugGenerate ==
    /\ pc = "debug generate"
    /\ \E result \in GenerateOutcomes(program) :
          /\ code' = result
          /\ pc' = "exited"
          /\ run' = [run EXCEPT !.generated = TRUE,
                                !.exit = IF result.status = "panic" THEN 2 ELSE 0]
    /\ UNCHANGED <<program, errs, files, stack, visited, out, gen>>

\* case "build", up to the test of p.Errors.
BuildParse ==
    /\ pc = "build"
    /\ \E parsed \in ParsedPrograms, messages \in ParserErrors :
          /\ program' = parsed
          /\ IF Len(messages) > 0
             THEN /\ pc' = "exited"
                  /\ run' = [run EXCEPT !.parserErrors = messages, !.exit = 1]
             ELSE /\ pc' = "build generate"
                  /\ run' = [run EXCEPT !.parserErrors = messages]
    /\ UNCHANGED <<errs, files, stack, visited, out, code, gen>>

\* generatedCode := codegen.Generate(program)
BuildGenerate ==
    /\ pc = "build generate"
    /\ \E result \in GenerateOutcomes(program) :
          /\ code' = result
          /\ IF result.status = "panic"
             THEN /\ pc' = "exited"
                  /\ run' = [run EXCEPT !.generated = TRUE, !.exit = 2]
             ELSE /\ pc' = "write"
                  /\ run' = [run EXCEPT !.generated = TRUE]
    /\ UNCHANGED <<program, errs, files, stack, visited, out, gen>>

\* err = ioutil.WriteFile(tempGoFile, []byte(generatedCode), 0644)
WriteGoFile ==
    /\ pc = "write"
    /\ \E ok \in BOOLEAN :
          IF ok THEN pc' = "compile" /\ UNCHANGED run ELSE Exit(1)
    /\ UNCHANGED <<program, errs, files, stack, visited, out, code, gen>>

\* err = cmd.Run() of go build
Compile ==
    /\ pc = "compile"
    /\ \E ok \in BOOLEAN : Exit(IF ok THEN 0 ELSE 1)
    /\ UNCHANGED <<program, errs, files, stack, visited, out, code, gen>>

NextMain ==
    \/ CheckArguments
    \/ ReadInput
    \/ InlineImports
    \/ Command
    \/ DebugParse
    \/ DebugGenerate
    \/ BuildParse
    \/ BuildGenerate
    \/ WriteGoFile
    \/ Compile

SpecMain == InitMain /\ [][NextMain]_vars

(***************************************************************************)
(* captureExpression, step by step.  g.out is a pointer: the buffers are   *)
(* kept in gen.bufs and gen.out is the index of the one g.out points to.   *)
(* gen.frames is the Go call stack, of calls of captureExpression and of   *)
(* genExpression; a call of genExpression is at its k-th step, and strs    *)
(* are the strings its captures have returned so far.  A call of           *)
(* captureExpression keeps its locals originalOut and buf (the index of    *)
(* its bytes.Buffer) and, for the properties, what g.out and the buffers   *)
(* were when it was called.                                                *)
(***************************************************************************)
CaptureCall(e, originalOut, buf, before) ==
    [fn |-> "captureExpression", expr |-> e, k |-> 0, strs |-> <<>>,
     originalOut |-> originalOut, buf |-> buf, before |-> before]

GenCall(e) ==
    [fn |-> "genExpression", expr |-> e, k |-> 1, strs |-> <<>>,
     originalOut |-> 0, buf |-> 0, before |-> <<>>]

ToWrite(text) == [do |-> "write", text |-> text, expr |-> <<>>]
ToCapture(e) == [do |-> "captureExpression", text |-> <<>>, expr |-> e]
ToGen(e) == [do |-> "genExpression", text |-> <<>>, expr |-> e]
ToReturn == [do |-> "return", text |-> <<>>, expr |-> <<>>]

\* What the call f of genExpression does next: the cases of its switch that
\* hold no function, call or map, for a generator that knows no types.
NextStep(f) ==
    LET node == f.expr
        k == f.k
        strs == f.strs
    IN  CASE node.kind = "IntegerLiteral" ->
                IF k = 1 THEN ToWrite(<<ToString(node.Value)>>) ELSE ToReturn
          [] node.kind = "StringLiteral" ->
                IF k = 1 THEN ToWrite(<<"\"">> \o Chars(node.Value) \o <<"\"">>) ELSE ToReturn
          [] node.kind = "Identifier" ->
                IF k = 1 THEN ToWrite(<<node.Value>>) ELSE ToReturn
          [] node.kind = "ListLiteral" ->
                IF k <= Len(node.Elements) THEN ToCapture(node.Elements[k])
                ELSE IF k = Len(node.Elements) + 1
                     THEN ToWrite(<<"[", "]", "interface", "{", "}", "{">> \o Join(strs, <<",", " ">>) \o <<"}">>)
                     ELSE ToReturn
          [] node.kind = "IndexExpression" ->
                CASE k = 1 -> ToCapture(node.Left)
                  [] k = 2 -> ToCapture(node.Index)
                  [] k = 3 -> ToWrite(IF Contains(strs[1], "[")
                                      THEN strs[1] \o <<".", "(", "map", "[", "string", "]", "interface", "{", "}", ")", "[">> \o strs[2] \o <<"]">>
                                      ELSE strs[1] \o <<"[">> \o strs[2] \o <<"]">>)
                  [] OTHER -> ToReturn
          [] node.kind = "MemberAccessExpression" ->
                CASE k = 1 -> ToCapture(node.Object)
                  [] k = 2 -> ToWrite(IF Contains(strs[1], "[")
                                      THEN strs[1] \o <<".", "(", "map", "[", "string", "]", "interface", "{", "}", ")", "[", "\"">> \o <<node.Property>> \o <<"\"", "]">>
                                      ELSE strs[1] \o <<"[", "\"">> \o <<node.Property>> \o <<"\"", "]">>)
                  [] OTHER -> ToReturn
          [] node.kind = "InfixExpression" ->
                CASE k = 1 -> ToWrite(<<"(">>)
                  [] k = 2 -> ToGen(node.Left)
                  [] k = 3 -> ToWrite(<<" ">> \o <<node.Operator>> \o <<" ">>)
                  [] k = 4 -> ToGen(node.Right)
                  [] k = 5 -> ToWrite(<<")">>)
                  [] OTHER -> ToReturn
          [] OTHER -> ToReturn

Innermost == gen.frames[Len(gen.frames)]

Callers == SubSeq(gen.frames, 1, Len(gen.frames) - 1)

InGenExpression == pc = "running" /\ gen.frames # <<>> /\ Innermost.fn = "genExpression"

\* var buf bytes.Buffer; originalOut := g.out; g.out = &buf; g.genExpression(expr)
Captured(frames, e) ==
    [gen EXCEPT !.bufs = Append(@, <<>>),
                !.out = Len(gen.bufs) + 1,
                !.frames = frames \o <<CaptureCall(e, gen.out, Len(gen.bufs) + 1,
                                                   [out |-> gen.out, bufs |-> gen.bufs]),
                                       GenCall(e)>>]

\* The caller has the expression of the program captured.
CallCapture ==
    /\ pc = "ready"
    /\ gen' = Captured(<<>>, program[1].Expression)
    /\ pc' = "running"
    /\ UNCHANGED <<program, errs, files, stack, visited, out, code, run>>

\* genExpression calls g.captureExpression on a part of its expression.
Capture ==
    /\ InGenExpression
    /\ NextStep(Innermost).do = "captureExpression"
    /\ gen' = Captured(gen.frames, NextStep(Innermost).expr)
    /\ UNCHANGED <<program, errs, pc, files, stack, visited, out, code, run>>

\* g.write(s): g.out.WriteString(s)
Write ==
    /\ InGenExpression
    /\ NextStep(Innermost).do = "write"
    /\ gen' = [gen EXCEPT !.bufs[gen.out] = @ \o NextStep(Innermost).text,
                          !.frames[Len(gen.frames)].k = @ + 1]
    /\ UNCHANGED <<program, errs, pc, files, stack, visited, out, code, run>>

\* genExpression calls itself on an operand, with g.out as it is.
Operand ==
    /\ InGenExpression
    /\ NextStep(Innermost).do = "genExpression"
    /\ gen' = [gen EXCEPT !.frames = Append(@, GenCall(NextStep(Innermost).expr))]
    /\ UNCHANGED <<program, errs, pc, files, stack, visited, out, code, run>>

\* genExpression returns, to the genExpression or the captureExpression that
\* called it.
Return ==
    /\ InGenExpression
    /\ NextStep(Innermost).do = "return"
    /\ gen' = [gen EXCEPT !.frames = [Callers EXCEPT ![Len(Callers)].k = @ + 1]]
    /\ UNCHANGED <<program, errs, pc, files, stack, visited, out, code, run>>

\* captureExpression without its restore: g.out stays on buf.
originalOutDropped(f) == gen.out

\* g.out = originalOut
originalOut(f) == f.originalOut

AboutToRestore ==
    pc = "running" /\ gen.frames # <<>> /\ Innermost.fn = "captureExpression" /\ Innermost.k = 1

\* g.out = originalOut; return buf.String(): the string goes to the
\* genExpression that asked for it, or to the caller.
Restore ==
    /\ AboutToRestore
    /\ gen' = [gen EXCEPT !.out = originalOut(Innermost),
                          !.ret = gen.bufs[Innermost.buf],
                          !.frames = IF Callers = <<>> THEN <<>>
                                     ELSE [Callers EXCEPT ![Len(Callers)] =
                                              [@ EXCEPT !.strs = Append(@, gen.bufs[Innermost.buf]),
                                                        !.k = @ + 1]]]
    /\ pc' = IF Callers = <<>> THEN "done" ELSE pc
    /\ UNCHANGED <<program, errs, files, stack, visited, out, code, run>>

captureExpressionSteps == CallCapture \/ Capture \/ Write \/ Operand \/ Return \/ Restore

(***************************************************************************)
(* The expressions captured: literals and identifiers, and lists, index    *)
(* expressions, member accesses and sums built on them, MaxDepth deep.     *)
(***************************************************************************)
CaptureLeaves == {IntegerLiteral, StringLiteral("hi"), Identifier("req")}

Around24(e) ==
    {ListLiteral(<<e>>), ListLiteral(<<Identifier("req"), e>>),
     IndexExpression(e, StringLiteral("hi")), IndexExpression(Identifier("req"), e),
     InfixExpression(e, IntegerLiteral), MemberAccessExpression(e, "id")}

RECURSIVE CaptureExpressions(_)
CaptureExpressions(depth) ==
    IF depth = 0 THEN CaptureLeaves
    ELSE CaptureLeaves \cup UNION {Around24(e) : e \in CaptureExpressions(depth - 1)}

\* What g.out holds when the caller asks: nothing yet, or the start of a line.
WrittenBefore == {<<>>, <<"returnValue", " ", ":", "=", " ">>}

InitCapture ==
    /\ program \in {<<ExpressionStatement(e)>> : e \in CaptureExpressions(MaxDepth)}
    /\ gen \in {[out |-> 1, bufs |-> <<w>>, frames |-> <<>>, ret |-> <<>>] : w \in WrittenBefore}
    /\ errs = <<>>
    /\ pc = "ready"
    /\ NoImports
    /\ NotGenerated
    /\ NotRun

SpecCapture == InitCapture /\ [][captureExpressionSteps]_vars

(***************************************************************************)
(* Vocabulary of the claims about the generated text.                      *)
(***************************************************************************)
\* The places at which the lexemes pat occur in text.
Find(text, pat) ==
    {i \in 1..(Len(text) - Len(pat) + 1) : SubSeq(text, i, i + Len(pat) - 1) = pat}

Generated == pc = "done" /\ code.status = "ok"

\* The support facilities: the import path, and the package name in uses.
Facilities ==
    {[path |-> <<"fmt">>, name |-> "fmt"], [path |-> <<"log">>, name |-> "log"],
     [path |-> <<"net", "/", "http">>, name |-> "http"], [path |-> <<"encoding", "/", "json">>, name |-> "json"],
     [path |-> <<"io", "/", "ioutil">>, name |-> "ioutil"], [path |-> <<"strings">>, name |-> "strings"]}

Declares(text, f) == Find(text, <<"\t", "\"">> \o f.path \o <<"\"", "\n">>) # {}

Uses(text, f) == Find(text, <<f.name, ".">>) # {}

(***************************************************************************)
(* C13 (as claimed).  The header of the generated text declares each       *)
(* support facility that the body uses, and no other, at whatever nesting  *)
(* depth the builtin form that uses it was met.                            *)
(***************************************************************************)
C13_AsClaimed ==
    Generated => \A f \in Facilities : Declares(code.text, f) <=> Uses(code.text, f)

(***************************************************************************)
(* Vocabulary of the claims about typed record literals: the program is a  *)
(* definition of a type and one let or const annotated with it and bound   *)
(* to a map literal.                                                       *)
(***************************************************************************)
\* Where a field of the construction is written: its capitalized name and ": ".
FieldAt(text, name) == Find(text, <<capitalizeFirst(name)>> \o <<":", " ">>)

First(S) == CHOOSE i \in S : \A j \in S : i <= j

TheLiteral(prog) == prog[TheBinding(prog)].Value

TheFields(prog) == FieldsOf(prog, TheBinding(prog))

(***************************************************************************)
(* C14 (as claimed).  The fields of the record construction emitted for a  *)
(* let or const of declared type T are written in the order T's definition *)
(* declares them, whatever the order of the literal's keys and wherever    *)
(* T's definition stands: of two declared fields the literal gives, the    *)
(* one declared first is written first.                                    *)
(***************************************************************************)
C14_AsClaimed ==
    (Generated /\ OneValidated(program)) =>
        \A i, j \in 1..Len(TheFields(program)) :
            (/\ i < j
             /\ Provided(TheLiteral(program), TheFields(program)[i].Name) # {}
             /\ Provided(TheLiteral(program), TheFields(program)[j].Name) # {}) =>
                /\ FieldAt(code.text, TheFields(program)[i].Name) # {}
                /\ FieldAt(code.text, TheFields(program)[j].Name) # {}
                /\ First(FieldAt(code.text, TheFields(program)[i].Name))
                       < First(FieldAt(code.text, TheFields(program)[j].Name))

(***************************************************************************)
(* C15 (as claimed).  For a let or const of declared type T whose literal  *)
(* lacks a field T declares, at top level or in a nested record, Generate  *)
(* returns a text, in which the field is written with the placeholder nil. *)
(***************************************************************************)
C15_AsClaimed ==
    (pc = "done" /\ OneValidated(program)) =>
        /\ code.status = "ok"
        /\ \A p \in MissingPositions(TheLiteral(program), TheFields(program), <<>>) :
              Find(code.text, <<capitalizeFirst(p[2])>> \o <<":", " ", "nil">>) # {}

(***************************************************************************)
(* C16 (as claimed).  For a let of declared type T that follows T's        *)
(* definition, every nested record field of T, at every depth, is declared *)
(* as a record in the emitted type, and every map literal the let's        *)
(* literal gives to a nested record field, at every depth, is written as   *)
(* an anonymous record construction: the text holds no generic map.        *)
(***************************************************************************)
\* The number of nested record fields of a field list, at every depth.
RECURSIVE NestedCount(_)
NestedCount(fields) ==
    IF fields = <<>> THEN 0
    ELSE (IF Head(fields).Nested # <<>> THEN 1 + NestedCount(Head(fields).Nested[1]) ELSE 0)
         + NestedCount(Tail(fields))

\* Each map literal in lit is the value of a declared nested record field.
RECURSIVE MapsAreRecords(_, _)
MapsAreRecords(lit, fields) ==
    \A p \in lit.Pairs :
        p.val.kind = "MapLiteral" =>
            \E i \in 1..Len(fields) :
                /\ fields[i].Name = p.key.Value
                /\ fields[i].Nested # <<>>
                /\ MapsAreRecords(p.val, fields[i].Nested[1])

TypedLetAfterDefinition ==
    /\ OneValidated(program)
    /\ program[1].kind = "TypeDefinition"
    /\ program[2].kind = "LetStatement"

C16_AsClaimed ==
    (Generated /\ TypedLetAfterDefinition) =>
        /\ Cardinality(Find(code.text, <<"struct", " ", "{", "\n">>)) = 1 + NestedCount(TheFields(program))
        /\ MapsAreRecords(TheLiteral(program), TheFields(program)) =>
              Find(code.text, <<"map", "[", "string", "]", "interface", "{", "}", "{">>) = {}

(***************************************************************************)
(* Vocabulary of the claims about routes.                                  *)
(***************************************************************************)
\* The server.route calls with a literal path that are statements of prog.
RouteCalls(prog) ==
    {prog[i].Expression :
        i \in {j \in 1..Len(prog) :
                 /\ prog[j].kind = "ExpressionStatement"
                 /\ prog[j].Expression.kind = "CallExpression"
                 /\ prog[j].Expression.Function = MemberAccessExpression(Identifier("server"), "route")
                 /\ Len(prog[j].Expression.Arguments) = 2
                 /\ prog[j].Expression.Arguments[1].kind = "StringLiteral"
                 /\ prog[j].Expression.Arguments[2].kind = "FunctionLiteral"}}

\* The segments of a call's template, trimmed of its outer slashes.
Segments(call) == Split(Trim(Chars(call.Arguments[1].Value), "/"), "/")

Dynamic(call) == {i \in 1..Len(Segments(call)) : HasPrefix(Segments(call)[i], ":")}

\* The static segments ahead of the first dynamic one, between single slashes.
StaticPrefix(call) ==
    LET static == SelectSeq(SubSeq(Segments(call), 1, First(Dynamic(call)) - 1), LAMBDA s : s # <<>>)
    IN  IF static = <<>> THEN <<"/">> ELSE <<"/">> \o Join(static, <<"/">>) \o <<"/">>

\* The line that binds the parameter of the dynamic segment i (counted from 1).
Binding17(call, i) ==
    <<"if", " ", "len", "(", "pathParts", ")", " ", ">", " ">> \o <<ToString(i - 1)>> \o <<" ", "{", " ", "params", "[", "\"">> \o Tail(Segments(call)[i])
    \o <<"\"", "]", " ", "=", " ", "pathParts", "[">> \o <<ToString(i - 1)>> \o <<"]", " ", "}", "\n">>

(***************************************************************************)
(* C17 (as claimed).  For each server.route call whose literal path has a  *)
(* `:name` segment, the text registers the handler under the static prefix *)
(* of the template, splits the request path trimmed of its slashes, and    *)
(* for the dynamic segment at index i binds params[name] to part i of the  *)
(* request path when the request has more than i parts.                    *)
(***************************************************************************)
C17_AsClaimed ==
    Generated =>
        \A call \in RouteCalls(program) :
            Dynamic(call) # {} =>
                /\ Find(code.text, <<"http", ".", "HandleFunc", "(", "\"">> \o StaticPrefix(call) \o <<"\"", ",", " ", "func", "(", "w", " ", "http", ".", "ResponseWriter">>) # {}
                /\ Find(code.text, <<"pathParts", " ", ":", "=", " ", "strings", ".", "Split", "(", "strings", ".", "Trim", "(", "r", ".", "URL", ".", "Path", ",", " ", "\"", "/", "\"", ")", ",", " ", "\"", "/", "\"", ")", "\n">>) # {}
                /\ \A i \in Dynamic(call) : Find(code.text, Binding17(call, i)) # {}

(***************************************************************************)
(* Vocabulary of the claim about malformed builtin calls: the calls of a   *)
(* program, at every depth.                                                *)
(***************************************************************************)
RECURSIVE CallsOfExpression(_)
RECURSIVE CallsOfStatements(_)
RECURSIVE CallsOfEach(_)
CallsOfExpression(e) ==
    CASE e.kind = "CallExpression" -> {e} \cup CallsOfExpression(e.Function) \cup CallsOfEach(e.Arguments)
      [] e.kind = "ListLiteral" -> CallsOfEach(e.Elements)
      [] e.kind = "FunctionLiteral" -> CallsOfStatements(e.Body)
      [] e.kind = "MemberAccessExpression" -> CallsOfExpression(e.Object)
      [] e.kind = "IndexExpression" -> CallsOfExpression(e.Left) \cup CallsOfExpression(e.Index)
      [] e.kind = "InfixExpression" -> CallsOfExpression(e.Left) \cup CallsOfExpression(e.Right)
      [] e.kind = "MapLiteral" -> UNION {CallsOfExpression(p.val) : p \in e.Pairs}
      [] OTHER -> {}

CallsOfEach(es) == UNION {CallsOfExpression(es[i]) : i \in 1..Len(es)}

CallsOfStatements(ss) ==
    UNION {CASE ss[i].kind = "ExpressionStatement" -> CallsOfExpression(ss[i].Expression)
             [] ss[i].kind \in {"LetStatement", "ConstStatement"} -> CallsOfExpression(ss[i].Value)
             [] ss[i].kind = "ReturnStatement" -> CallsOfExpression(ss[i].ReturnValue)
             [] OTHER -> {} : i \in 1..Len(ss)}

\* The call names a member of `server`.
OnServer(call, member) == call.Function = MemberAccessExpression(Identifier("server"), member)

(***************************************************************************)
(* Vocabulary of the claim about the shape of a handler that takes a       *)
(* parameter: the route calls of a program in the order Generate meets     *)
(* them, and the parts of the text of each.                                *)
(***************************************************************************)
IsRoute(e) ==
    /\ e.kind = "CallExpression"
    /\ e.Function = MemberAccessExpression(Identifier("server"), "route")
    /\ Len(e.Arguments) = 2
    /\ e.Arguments[1].kind = "StringLiteral"
    /\ e.Arguments[2].kind = "FunctionLiteral"

IsNamed(s) ==
    s.kind = "ExpressionStatement" /\ s.Expression.kind = "FunctionLiteral" /\ s.Expression.Name # <<>>

\* The route calls with a handler that takes a parameter, in an expression
\* and in a list of statements, outermost first.
RECURSIVE RoutesOfExpression(_)
RECURSIVE RoutesOfStatements(_)
RECURSIVE RoutesOfEach(_)
RoutesOfExpression(e) ==
    CASE e.kind = "CallExpression" ->
             (IF IsRoute(e) /\ e.Arguments[2].Parameters # <<>> THEN <<e>> ELSE <<>>)
             \o RoutesOfEach(e.Arguments)
      [] e.kind = "ListLiteral" -> RoutesOfEach(e.Elements)
      [] e.kind = "FunctionLiteral" -> RoutesOfStatements(e.Body)
      [] OTHER -> <<>>

RoutesOfEach(es) == IF es = <<>> THEN <<>> ELSE RoutesOfExpression(Head(es)) \o RoutesOfEach(Tail(es))

RoutesOfStatements(ss) ==
    IF ss = <<>> THEN <<>>
    ELSE (CASE Head(ss).kind = "ExpressionStatement" -> RoutesOfExpression(Head(ss).Expression)
            [] Head(ss).kind = "LetStatement" -> RoutesOfExpression(Head(ss).Value)
            [] Head(ss).kind = "ConstStatement" -> RoutesOfExpression(Head(ss).Value)
            [] Head(ss).kind = "ReturnStatement" -> RoutesOfExpression(Head(ss).ReturnValue)
            [] OTHER -> <<>>)
         \o RoutesOfStatements(Tail(ss))

\* Generate writes the named functions of the top level ahead of main.
RoutesInOrder(prog) ==
    RoutesOfStatements(SelectSeq(prog, IsNamed)) \o RoutesOfStatements(SelectSeq(prog, LAMBDA s : ~IsNamed(s)))

\* No handler with a parameter holds a route call with such a handler, and
\* every call of server.route has a string for a path and a function literal
\* for a handler, and nothing more.
FlatRoutes(prog) ==
    /\ \A i \in 1..Len(RoutesInOrder(prog)) : RoutesOfStatements(RoutesInOrder(prog)[i].Arguments[2].Body) = <<>>
    /\ \A call \in CallsOfStatements(prog) : OnServer(call, "route") => IsRoute(call)

QueryPart ==
    <<"query", " ", ":", "=", " ", "make", "(", "map", "[", "string", "]", "interface", "{", "}", ")", "\n">>

BodyPart ==
    <<<<"if", " ", "r", ".", "Method", " ", "=", "=", " ", "\"", "POST", "\"", " ", "|", "|", " ", "r", ".", "Method", " ", "=", "=", " ", "\"", "PUT", "\"", " ", "{", "\n">>,
      <<"r", ".", "Body", " ", "=", " ", "http", ".", "MaxBytesReader", "(", "w", ",", " ", "r", ".", "Body", ",", " ", "1", "<", "<", "20", ")", " ", "/", "/", " ", "limit", " ", "to", " ", "1MB", "\n">>,
      <<"bodyBytes", ",", " ", "err", " ", ":", "=", " ", "ioutil", ".", "ReadAll", "(", "r", ".", "Body", ")", "\n">>,
      <<"if", " ", "err", " ", "!", "=", " ", "nil", " ", "{", " ", "http", ".", "Error", "(", "w", ",", " ", "\"", "failed", " ", "to", " ", "read", " ", "body", "\"", ",", " ", "http", ".", "StatusBadRequest", ")", ";", " ", "return", " ", "}", "\n">>,
      <<"if", " ", "len", "(", "bodyBytes", ")", " ", ">", " ", "0", " ", "{", " ", "var", " ", "bodyObj", " ", "interface", "{", "}", ";", " ", "if", " ", "err", " ", ":", "=", " ", "json", ".", "Unmarshal", "(", "bodyBytes", ",", " ", "&", "bodyObj", ")", ";", " ", "err", " ", "!", "=", " ", "nil", " ", "{", " ", "http", ".", "Error", "(", "w", ",", " ", "\"", "invalid", " ", "JSON", "\"", ",", " ", "http", ".", "StatusBadRequest", ")", ";", " ", "return", " ", "}", ";", " ", "req", "[", "\"", "body", "\"", "]", " ", "=", " ", "bodyObj", " ", "}", "\n">>>>

LogPart == <<"log", ".", "Printf", "(", "\"", "%", "s", " ", "%", "s", "\"", ",", " ", "r", ".", "Method", ",", " ", "r", ".", "URL", ".", "Path", ")", "\n">>

ResultPart ==
    <<<<"switch", " ", "rv", " ", ":", "=", " ", "returnValue", ".", "(", "type", ")", " ", "{", "\n">>,
      <<"case", " ", "string", ":", "\n">>, <<"fmt", ".", "Fprint", "(", "w", ",", " ", "rv", ")", "\n">>,
      <<"default", ":", "\n">>, <<"b", ",", " ", "_", " ", ":", "=", " ", "json", ".", "Marshal", "(", "rv", ")", "\n">>,
      <<"w", ".", "Header", "(", ")", ".", "Set", "(", "\"", "Content", "-", "Type", "\"", ",", " ", "\"", "application", "/", "json", "\"", ")", "\n">>, <<"w", ".", "Write", "(", "b", ")", "\n">>>>

\* The dynamic segments of a template, in a sequence.
RECURSIVE BindingLines(_, _)
BindingLines(call, i) ==
    IF i > Len(Segments(call)) THEN <<>>
    ELSE (IF i \in Dynamic(call) THEN <<Binding17(call, i)>> ELSE <<>>) \o BindingLines(call, i + 1)

\* The text without its indentation.
NoTabs(text) == SelectSeq(text, LAMBDA l : l # "\t")

\* What one statement of a handler lowers to on its own, without indentation.
Lowered(s) ==
    LET alone == handlerStatements(NewGenerator, <<s>>, <<"returnValue", " ", ":", "=", " ", "interface", "{", "}", "(">>, <<")", "\n">>)
    IN  NoTabs((CHOOSE hg \in alone : TRUE).out)

RECURSIVE LoweredEach(_)
LoweredEach(ss) == IF ss = <<>> THEN <<>> ELSE <<Lowered(Head(ss))>> \o LoweredEach(Tail(ss))

\* The parts of the text of one call, in the order claimed.
Parts(call) ==
    <<QueryPart>> \o BindingLines(call, 1) \o BodyPart \o <<LogPart>>
    \o LoweredEach(call.Arguments[2].Body) \o ResultPart

RECURSIVE PartsOfEach(_)
PartsOfEach(calls) == IF calls = <<>> THEN <<>> ELSE Parts(Head(calls)) \o PartsOfEach(Tail(calls))

\* The parts lie in the text from the place on in their order, one after the
\* end of the other.
RECURSIVE InOrderFrom(_, _, _)
InOrderFrom(text, parts, place) ==
    \/ parts = <<>>
    \/ LET S == {i \in Find(text, Head(parts)) : i >= place}
       IN  S # {} /\ InOrderFrom(text, Tail(parts), First(S) + Len(Head(parts)))

InOrder(text, parts) == InOrderFrom(NoTabs(text), parts, 1)

\* Each part of a fixed wording is in the text once for each call that has it.
EachOnce(text, calls) ==
    /\ \A part \in {QueryPart, LogPart} \cup {BodyPart[i] : i \in DOMAIN BodyPart}
                   \cup {ResultPart[i] : i \in DOMAIN ResultPart} :
           Cardinality(Find(text, part)) = Len(calls)
    /\ Cardinality(Find(text, <<"pathParts", " ", ":", "=", " ">>))
           = Cardinality({i \in 1..Len(calls) : Dynamic(calls[i]) # {}})
    /\ Cardinality(Find(text, <<"params", "[", "\"">>))
           = Len(PartsOfEach(calls)) - Len(SelectSeq(PartsOfEach(calls), LAMBDA p : Find(p, <<"params", "[", "\"">>) = {}))

PlainCalls(prog) == {call \in RouteCalls(prog) : call.Arguments[2].Parameters = <<>>}

\* The returns of string literals in the body of a call's handler.
StringReturns(call) ==
    {call.Arguments[2].Body[i].ReturnValue.Value :
        i \in {j \in 1..Len(call.Arguments[2].Body) :
                 /\ call.Arguments[2].Body[j].kind = "ReturnStatement"
                 /\ call.Arguments[2].Body[j].ReturnValue.kind = "StringLiteral"}}

RegisteredDirectly(text, call) ==
    Find(text, <<"http", ".", "HandleFunc", "(", "\"">> \o Chars(call.Arguments[1].Value)
               \o <<"\"", ",", " ", "func", "(", "w", " ", "http", ".", "ResponseWriter", ",", " ", "r", " ", "*", "http", ".", "Request", ")", " ", "{", "\n">>) # {}

BindsAndWrites(text, call) ==
    /\ \A v \in StringReturns(call) : Find(text, <<"returnValue", " ", ":", "=", " ", "\"">> \o Chars(v) \o <<"\"", "\n">>) # {}
    /\ Find(text, <<"fmt", ".", "Fprint", "(", "w", ",", " ", "returnValue", ")", "\n">>) # {}

HeaderIsFmtAndHttp(text) ==
    \A f \in Facilities : Declares(text, f) <=> f.name \in {"fmt", "http"}

\* The helper the text calls is a function the text declares.
HelpersDefined(text) == Find(text, <<"wrapHandler", "(">>) # {} => Find(text, <<"func", " ", "wrapHandler", "(">>) # {}

(***************************************************************************)
(* C19 (as claimed).  For a server.route call whose handler takes no       *)
(* parameter the text registers the handler function itself under the      *)
(* path, binds what the handler returns to returnValue and writes it with  *)
(* fmt.Fprint(w, returnValue); when the call is the whole program the      *)
(* header declares fmt and net/http and nothing else; and the text calls   *)
(* no helper that it does not define.                                      *)
(***************************************************************************)
C19_AsClaimed ==
    Generated =>
        /\ \A call \in PlainCalls(program) :
               RegisteredDirectly(code.text, call) /\ BindsAndWrites(code.text, call)
        /\ (Len(program) = 1 /\ PlainCalls(program) # {}) => HeaderIsFmtAndHttp(code.text)
        /\ HelpersDefined(code.text)

(***************************************************************************)
(* Vocabulary of the claim about member accesses: the statements one       *)
(* generator lowers, and what it has recorded by the k-th of them.         *)
(***************************************************************************)
IsPrint(s) ==
    /\ s.kind = "ExpressionStatement"
    /\ s.Expression.kind = "CallExpression"
    /\ s.Expression.Function = Identifier("print")
    /\ Len(s.Expression.Arguments) = 1
    /\ s.Expression.Arguments[1].kind = "MemberAccessExpression"

Prints(ss) == {k \in 1..Len(ss) : IsPrint(ss[k])}

\* The statements among which the print of a member access stands: the
\* program, or the body of the function literal its one statement binds.
Around(prog) ==
    IF Prints(prog) # {} THEN prog
    ELSE IF /\ prog # <<>>
            /\ prog[Len(prog)].kind = "LetStatement"
            /\ prog[Len(prog)].Value.kind = "FunctionLiteral"
         THEN prog[Len(prog)].Value.Body
         ELSE <<>>

\* The statements ahead of the k-th that bind the name to a map literal
\* under a declared type.
TypedBindings(ss, k, name) ==
    {j \in 1..(k - 1) :
        /\ ss[j].kind \in {"LetStatement", "ConstStatement"}
        /\ ss[j].Name = name
        /\ ss[j].TypeName # ""
        /\ ss[j].Value.kind = "MapLiteral"}

\* The fields that the definitions ahead of the k-th statement declare, with
\* a nested record, for the type of the name.
NestedFields(ss, k, name) ==
    UNION {{ss[d].Fields[i].Name : i \in {j \in 1..Len(ss[d].Fields) : ss[d].Fields[j].Nested # <<>>}} :
              d \in {j \in 1..(k - 1) :
                        /\ ss[j].kind = "TypeDefinition"
                        /\ \E b \in TypedBindings(ss, k, name) : ss[b].TypeName = ss[j].Name}}

\* The object is a typed variable, or a nested record field of one.
KnownRecord(o, ss, k) ==
    \/ o.kind = "Identifier" /\ TypedBindings(ss, k, o.Value) # {}
    \/ /\ o.kind = "MemberAccessExpression"
       /\ o.Object.kind = "Identifier"
       /\ o.Property \in NestedFields(ss, k, o.Object.Value)

\* What an expression that is not a member access is lowered to.
Rendered(e) == (CHOOSE h \in captureExpression(NewGenerator, e) : TRUE).ret

\* The text claimed for an expression at the k-th statement.
RECURSIVE Claimed20(_, _, _)
Claimed20(e, ss, k) ==
    IF e.kind # "MemberAccessExpression" THEN Rendered(e)
    ELSE LET obj == Claimed20(e.Object, ss, k)
         IN  IF KnownRecord(e.Object, ss, k) THEN obj \o <<".">> \o <<capitalizeFirst(e.Property)>>
             ELSE IF \E i \in 1..Len(obj) : obj[i] = "["
                  THEN obj \o <<".", "(", "map", "[", "string", "]", "interface", "{", "}", ")", "[", "\"">> \o <<e.Property>> \o <<"\"", "]">>
                  ELSE obj \o <<"[", "\"">> \o <<e.Property>> \o <<"\"", "]">>

Malformed(call) ==
    \/ (OnServer(call, "serve") \/ OnServer(call, "static")) /\ Len(call.Arguments) = 0
    \/ OnServer(call, "route")
         /\ (Len(call.Arguments) < 2 \/ call.Arguments[2].kind # "FunctionLiteral")

ParserReported == run.parserErrors # <<>>

C22_AsClaimed ==
    ParserReported =>
        /\ ~run.generated
        /\ pc = "exited" => run.exit > 0

\* The build command halts as claimed: parser errors, exit status 1, and
\* Generate not called.
C22_BuildHalts ==
    /\ command = "build"
    /\ ParserReported
    /\ pc = "exited"
    /\ run.exit = 1
    /\ ~run.generated

\* The debug command generated code, and left with status 0, from a tree the
\* parser had reported errors on.
C22_DebugGenerates ==
    /\ command = "debug"
    /\ ParserReported
    /\ run.generated
    /\ run.exit = 0

(***************************************************************************)
(* C23.  preprocessImports terminates, with a text or with an error, on    *)
(* every set of files: also when a module imports itself, when two modules *)
(* import each other, and when an import cycle passes through the entry    *)
(* file.                                                                   *)
(***************************************************************************)
Returned == pc = "done" /\ stack = <<>> /\ out.status \in {"ok", "error"}

C23_Terminates == <>Returned

Imports(f, path) == \E k \in DOMAIN files[f] : files[f][k] = Import("x", path)

\* a.psk and b.psk import each other, lib/c.psk imports main.psk back, and
\* every one of the four was read in the run that returned.
C23_Witness ==
    /\ Returned
    /\ out.status = "ok"
    /\ Imports(Entry, FileA) /\ Imports(Entry, FileC)
    /\ Imports(FileA, FileB) /\ Imports(FileB, FileA)
    /\ Imports(FileC, Entry)
    /\ visited = {Entry, FileA, FileB, FileC}

\* lib/c.psk imports itself, and the run returned.
C23_SelfImport ==
    /\ Returned
    /\ Imports(Entry, FileC)
    /\ Imports(FileC, <<"c">>)
    /\ FileC \in visited

(***************************************************************************)
(* C27.  In the text preprocessImports returns, the entry file's own       *)
(* content appears exactly once, also when a module it imports, directly   *)
(* or through other modules, imports the entry file back.                  *)
(***************************************************************************)
C27_AsClaimed ==
    pc = "done" /\ out.status = "ok" => Copies(Entry, out.text) = 1

\* main.psk imports a.psk and a.psk imports main.psk: the text returned holds
\* main.psk's content twice, once inlined inside a.psk's and once as itself.
C27_EntryTwice ==
    /\ pc = "done" /\ out.status = "ok"
    /\ files[Entry] = <<Import("x", FileA), Text(Entry)>>
    /\ files[FileA] = <<Import("x", Entry), Text(FileA)>>
    /\ out.text = <<BeginMarker(FileA), BeginMarker(Entry), Text(Entry), EndMarker(Entry),
                    Text(FileA), EndMarker(FileA), Text(Entry)>>

(***************************************************************************)
(* C24.  For every expression and every depth of captures inside captures, *)
(* when captureExpression returns g.out points to the buffer it pointed to *)
(* before the call, that buffer holds what it held before the call, and    *)
(* the string returned is exactly what genExpression wrote for the         *)
(* expression.                                                             *)
(***************************************************************************)
\* What genExpression writes for e, on a generator of its own.
Written(e) == (CHOOSE r \in genExpression(NewGenerator, e) : TRUE).out

CapturesActive ==
    Cardinality({i \in DOMAIN gen.frames : gen.frames[i].fn = "captureExpression"})

Statements(prog) == {prog[i] : i \in DOMAIN prog}

\* The named function literals of the top level.
TopLevelNamed(prog) ==
    {s.Expression : s \in {t \in Statements(prog) : t.kind = "ExpressionStatement"}}
    \cup {s.Value : s \in {t \in Statements(prog) : t.kind = "LetStatement"}}

NamedLiterals(prog) ==
    {fl \in TopLevelNamed(prog) : fl.kind = "FunctionLiteral" /\ fl.Name # <<>>}

\* Where the declaration of fl starts, and where its body's statement is.
Declarations(text, fl) == Find(text, <<"func", " ">> \o fl.Name \o <<"(">>)

Bodies(text, fl) == Find(text, <<"fmt", ".", "Println", "(", "\"">> \o fl.Name \o <<"\"", ")">>)

C25_AsClaimed ==
    Generated /\ program \in NamedPrograms =>
        \A fl \in NamedLiterals(program) :
            /\ Cardinality(Declarations(code.text, fl)) = 1
            /\ \A d \in Declarations(code.text, fl), m \in Find(code.text, <<"func", " ", "main", "(", ")">>) : d < m
            /\ Cardinality(Bodies(code.text, fl)) = 1

\* What holds of the code: one declaration before main for each, and the
\* body once for a literal that is a statement, twice for one that is the
\* value of a let.
C25_LetValueTwice ==
    Generated /\ program \in NamedPrograms =>
        \A fl \in NamedLiterals(program) :
            /\ Cardinality(Declarations(code.text, fl)) = 1
            /\ \A d \in Declarations(code.text, fl), m \in Find(code.text, <<"func", " ", "main", "(", ")">>) : d < m
            /\ Cardinality(Bodies(code.text, fl)) =
                  IF \E s \in Statements(program) : s.kind = "LetStatement" /\ s.Value = fl THEN 2 ELSE 1

C25_Statement ==
    /\ Generated
    /\ program = <<ExpressionStatement(Named("f"))>>
    /\ Cardinality(Bodies(code.text, Named("f"))) = 1

(***************************************************************************)
(* C26.  The handler emitted for a server.route call declares returnValue  *)
(* exactly once, before the code that writes the response reads it, for    *)
(* every handler body: with no return statement, with one, and with more   *)
(* than one.                                                               *)
(***************************************************************************)
ReturnValueDeclared(text) == Find(text, <<"returnValue", " ", ":", "=", " ">>)

ReturnValueRead(text) ==
    Find(text, <<"fmt", ".", "Fprint", "(", "w", ",", " ", "returnValue", ")">>) \cup Find(text, <<"switch", " ", "rv", " ", ":", "=", " ", "returnValue", ".", "(", "type", ")">>)

OneRoute ==
    Len(program) = 1 /\ program[1].kind = "ExpressionStatement" /\ IsRoute(program[1].Expression)

TheBody == program[1].Expression.Arguments[2].Body

Returns(body) == {i \in DOMAIN body : body[i].kind = "ReturnStatement"}

C26_AsClaimed ==
    Generated /\ program \in RoutePrograms /\ OneRoute =>
        /\ Cardinality(ReturnValueDeclared(code.text)) = 1
        /\ Cardinality(ReturnValueRead(code.text)) = 1
        /\ \A d \in ReturnValueDeclared(code.text), r \in ReturnValueRead(code.text) : d < r

\* What holds of the code: one declaration for each return statement of the
\* body, all of them before the one read.
C26_OnePerReturn ==
    Generated /\ program \in RoutePrograms /\ OneRoute =>
        /\ Cardinality(ReturnValueDeclared(code.text)) = Cardinality(Returns(TheBody))
        /\ Cardinality(ReturnValueRead(code.text)) = 1
        /\ \A d \in ReturnValueDeclared(code.text), r \in ReturnValueRead(code.text) : d < r

\* A handler with no return statement: returnValue is read and never declared.
C26_NoReturn ==
    /\ Generated /\ program \in RoutePrograms /\ OneRoute
    /\ TheBody = <<>>
    /\ ReturnValueDeclared(code.text) = {}
    /\ ReturnValueRead(code.text) # {}

\* A handler with two return statements: returnValue is declared twice.
C26_TwoReturns ==
    /\ Generated /\ program \in RoutePrograms /\ OneRoute
    /\ Cardinality(Returns(TheBody)) = 2
    /\ Cardinality(ReturnValueDeclared(code.text)) = 2

(***************************************************************************)
(* C28.  Within one generated program, no two registrations emitted for    *)
(* server.route calls share a registration pattern when their path         *)
(* templates differ in a static segment, as /users/:id and                 *)
(* /users/:id/posts/:pid do.                                               *)
(***************************************************************************)
TwoRoutes ==
    /\ Len(program) = 2
    /\ \A i \in 1..2 : program[i].kind = "ExpressionStatement" /\ IsRoute(program[i].Expression)

Template(i) == program[i].Expression.Arguments[1].Value

\* The static segments of a template, in order.
StaticSegments(path) ==
    SelectSeq(Split(Chars(path), "/"), LAMBDA s : s # <<>> /\ ~HasPrefix(s, ":"))

\* The patterns registered, in order: what stands between http.HandleFunc("
\* and the closing quote.
Registrations(text) == Find(text, <<"http", ".", "HandleFunc", "(", "\"">>)

RECURSIVE UpToQuote(_, _)
UpToQuote(text, i) ==
    IF i > Len(text) \/ text[i] = "\"" THEN <<>> ELSE <<text[i]>> \o UpToQuote(text, i + 1)

Pattern(text, r) == UpToQuote(text, r + Len(<<"http", ".", "HandleFunc", "(", "\"">>))

C28_AsClaimed ==
    Generated /\ program \in RoutePrograms /\ TwoRoutes
        /\ StaticSegments(Template(1)) # StaticSegments(Template(2)) =>
            /\ Cardinality(Registrations(code.text)) = 2
            /\ \A r, s \in Registrations(code.text) :
                  r # s => Pattern(code.text, r) # Pattern(code.text, s)

\* /users/:id and /users/:id/posts/:pid are both registered as /users/.
C28_SamePattern ==
    /\ Generated /\ program \in RoutePrograms /\ TwoRoutes
    /\ Template(1) = "/users/:id" /\ Template(2) = "/users/:id/posts/:pid"
    /\ \A r \in Registrations(code.text) : Pattern(code.text, r) = <<"/", "users", "/">>
    /\ Cardinality(Registrations(code.text)) = 2

(***************************************************************************)
(* C29.  Generate is deterministic: two runs on the same Program return    *)
(* identical text, also when the program holds map literals with more than *)
(* one key, typed or untyped.                                              *)
(***************************************************************************)
\* Every run of Generate on the program returns what this run returned.
C29_AsClaimed == pc = "done" => GenerateOutcomes(program) = {code}

\* An untyped literal of two keys: one run wrote id first, another sub first.
C29_TwoTexts ==
    /\ Generated
    /\ Len(program) = 2 /\ program[1] = LetStatement("u", "", UserLiteral)
    /\ Find(code.text, <<"{", "\"", "id", "\"", ":", " ", "1", ",", " ", "\"", "sub", "\"", ":", " ">>) # {}
    /\ \E other \in GenerateOutcomes(program) :
          other.status = "ok" /\ Find(other.text, <<"{", "\"", "sub", "\"", ":", " ", "map", "[", "string", "]", "interface", "{", "}", "{", "\"", "id", "\"", ":", " ", "1", "}", ",", " ", "\"", "id", "\"", ":", " ", "1", "}">>) # {}

(***************************************************************************)
(* C30.  The type knowledge the generator records at top level, the types  *)
(* of the variables and the registry of definitions, is in effect when it  *)
(* lowers the statements of a function literal's body and of a route       *)
(* handler's body: a member access on a top-level variable of a known      *)
(* record type lowers there to the capitalized field access it lowers to   *)
(* at top level.                                                           *)
(***************************************************************************)
\* The statements of the body that the third statement of the program holds:
\* the value of a let, or the handler of a route call.
BodyOfThird ==
    IF program[3].kind = "LetStatement" THEN program[3].Value.Body
    ELSE program[3].Expression.Arguments[2].Body

\* A definition, a binding of u under it, and a body that prints an access.
InBody ==
    /\ Len(program) = 3
    /\ program[1].kind = "TypeDefinition"
    /\ program[2] \in MemberBindings
    /\ \/ program[3].kind = "LetStatement" /\ program[3].Value.kind = "FunctionLiteral"
       \/ program[3].kind = "ExpressionStatement" /\ IsRoute(program[3].Expression)
    /\ IsPrint(BodyOfThird[1])

\* The same access printed at top level, after the same two statements.
AtTopLevel == <<program[1], program[2], BodyOfThird[1]>>

C30_AsClaimed ==
    Generated /\ InBody =>
        Find(code.text, <<"fmt", ".", "Println", "(">>
                        \o Claimed20(BodyOfThird[1].Expression.Arguments[1], AtTopLevel, 3)
                        \o <<")", "\n">>) # {}

\* u is bound under User at top level, and print(u.id) in a function body
\* and in a handler body is lowered as a map lookup.
C30_MapLookupInBody ==
    /\ Generated /\ InBody
    /\ program[2] = Binding("LetStatement", "User", UserLiteral)
    /\ BodyOfThird[1] = PrintOf(MemberAccessExpression(Identifier("u"), "id"))
    /\ Find(code.text, <<"fmt", ".", "Println", "(", "u", "[", "\"", "id", "\"", "]", ")", "\n">>) # {}
    /\ Find(code.text, <<"u", ".", "Id">>) = {}

C30_InHandler ==
    /\ C30_MapLookupInBody
    /\ program[3].kind = "ExpressionStatement"

=============================================================================
